---- MODULE Spec2Model ----
(***************************************************************************)
(* Session Manager of codex_terminal_manage                                *)
(* (backend/app/services/session_manager.py, backend/app/main.py).         *)
(*                                                                         *)
(* Every coroutine of the program is a process of the model; a step of a   *)
(* process is the code the event loop runs between two suspension points   *)
(* (an await that really yields: run_in_executor, send_json, sleep, the    *)
(* lock), or the body of a function handed to the executor, which runs in  *)
(* a worker thread at a moment of its own.                                 *)
(*                                                                         *)
(* A child process, its reader task and its monitor task are named after   *)
(* the WebSocket whose attach spawned them: an attach spawns at most once. *)
(***************************************************************************)
EXTENDS Integers, Sequences, FiniteSets, TLC

\* ---------------------------------------------------------------- bounds
MaxClock == 2       \* datetime.utcnow() takes values 0..MaxClock
MaxChunks == 2      \* output chunks one child produces
MaxMsgLen == 2      \* characters of one "input" message
MaxInputs == 1      \* "input" messages one WebSocket sends

\* ------------------------------------------------------------- universes
SessionIds == {"s1", "s2"}      \* under Spec "s2" is an id no POST /sessions returns
Sockets == {"w1", "w2"}
None == "none"
Null == -1                      \* a NULL column of the sessions table
ExitCodes == {0, 1}

\* models.py SessionStatus
RUNNING == "running"
COMPLETED == "completed"
STOPPED == "stopped"
ERROR == "error"
INTERRUPTED == "interrupted"
FINAL_STATES == {COMPLETED, STOPPED, ERROR, INTERRUPTED}

NoRecord == [status |-> None, exit_code |-> Null, finished_at |-> Null]

\* No POST /sessions request has been answered.
NoPost == [quantity |-> 0, profile |-> FALSE, code |-> 0, ids |-> {}]

\* git.diff_status has not been called.
NoCall ==
    [before |-> <<>>, after |-> <<>>, returned |-> FALSE,
     out |-> [added |-> {}, modified |-> {}, deleted |-> {}]]

VARIABLES
    registry,   \* SessionManager._sessions: the ids it maps
    ctx,        \* the SessionContext object of each id (it outlives its registry entry)
    rec,        \* the sessions table: SessionRecord of each id, or NoRecord
    child,      \* the child processes, by spawning socket
    hnd,        \* session_socket coroutines, one per WebSocket
    mon,        \* _monitor tasks, by spawning socket
    rdr,        \* _read_pty tasks, by spawning socket
    del,        \* delete_session requests, one per id
    now,        \* the clock read by datetime.utcnow()
    recv,       \* what each WebSocket has been sent
    log,        \* raw.log of each id
    stdin,      \* per session, in order: the writes to its children and the delta sends
    recording,  \* whether this specification keeps the history recv
    post,       \* the last POST /sessions request and its response
    diffed      \* a call of git.diff_status: its arguments and what it returned

vars == <<registry, ctx, rec, child, hnd, mon, rdr, del, now, recv, log, stdin, recording, post, diffed>>

\* SessionContext(...) as built by SessionManager.create_session; "made" tells
\* whether the object exists (its uuid4 has been drawn).
SessionContext(made, git) ==
    [made |-> made, pty |-> None, reader_task |-> None, monitor_task |-> None,
     sockets |-> {}, log_file |-> FALSE, command_buffer |-> <<>>,
     cwd_has_git |-> git, lock |-> None]

\* A session_socket coroutine that has not started: pc is where it is suspended,
\* s the session id of its URL, k the "input" messages it has received; rest, buf,
\* wd, after, before, label and pend are the locals of the send_input in progress
\* (characters still to process, pending write buffer, data handed to the
\* executor, what follows the write, before_snapshot, command_label, sockets the
\* delta is still to be sent to). late is history (see ChildGone).
NoSnap == [ok |-> FALSE, map |-> <<>>]

NoHandler ==
    [pc |-> "new", s |-> None, late |-> FALSE, k |-> 0, rest |-> <<>>, buf |-> <<>>,
     wd |-> <<>>, after |-> None, before |-> NoSnap, label |-> <<>>, pend |-> {}]

NoTask == [pc |-> "none", waits |-> None, rc |-> Null, pend |-> {}]
\* A _read_pty task: chunk is what _read returned, logged whether _write_log wrote
\* it, pend the sockets it is still to be sent to; since is history, the
\* subscribers of the session when the task was created.
NoReader == [pc |-> "none", chunk |-> <<>>, logged |-> FALSE, pend |-> {}, since |-> {}]

Init ==
    /\ registry = {}
    /\ ctx = [s \in SessionIds |-> SessionContext(FALSE, FALSE)]
    /\ rec = [s \in SessionIds |-> NoRecord]
    /\ child = [c \in Sockets |-> [st |-> "none", code |-> Null, nread |-> 0]]
    /\ hnd = [w \in Sockets |-> NoHandler]
    /\ mon = [c \in Sockets |-> NoTask]
    /\ rdr = [c \in Sockets |-> NoReader]
    /\ del = [s \in SessionIds |-> [pc |-> "idle", pend |-> {}]]
    /\ now = 0
    /\ recv = [w \in Sockets |-> <<>>]
    /\ log = [s \in SessionIds |-> <<>>]
    /\ stdin = [s \in SessionIds |-> <<>>]
    /\ recording = FALSE
    /\ post = NoPost
    /\ diffed = NoCall

\* Every socket is taken to have asked for the same session.
SessionOf_first(w) == "s1"

\* The session a socket asked for, hence the session of the child it spawned.
SessionOf(w) == hnd[w].s

\* ------------------------------------------------------------------ clock
\* datetime.utcnow() is read, and time goes on: two reads differ until the clock
\* of the model is at its bound.
utcnow_after(t) == IF t < MaxClock THEN t + 1 ELSE t

\* -------------------------------------------------------- POST /sessions
\* main.create_session with SessionManager.create_session: no suspension point
\* lies between the registry insert and the commit of the record.
create_session(s, git) ==
    /\ ~ctx[s].made
    /\ registry' = registry \cup {s}
    /\ ctx' = [ctx EXCEPT ![s] = SessionContext(TRUE, git)]
    /\ rec' = [rec EXCEPT ![s] = [status |-> RUNNING, exit_code |-> Null, finished_at |-> Null]]
    /\ UNCHANGED <<child, hnd, mon, rdr, del, now, recv, log, stdin, recording, post, diffed>>

\* The quantities a POST /sessions request may ask for; those from 3 to 10 would
\* need more ids than SessionIds has.
Quantities == {-1, 0, 1, 2, 11}

\* schemas.SessionCreateRequest: quantity: int = Field(default=1, ge=1, le=10),
\* validated before the route function is called; a request that fails is answered
\* with 422.
SessionCreateRequest(quantity) == quantity >= 1 /\ quantity <= 10

min(a, b) == IF a <= b THEN a ELSE b

max(a, b) == IF a >= b THEN a ELSE b

\* The ids uuid4 can draw: no context and no record has them.
FreshIds == {s \in SessionIds : ~ctx[s].made /\ rec[s] = NoRecord}

\* POST /sessions with payload quantity q, for a profile that exists or not. The
\* payload is validated first (422); the route answers 404 for a missing profile;
\* else it creates max(1, min(q, 10)) sessions, each with a context in the
\* registry and a running record, and commits them together. The loop has no
\* suspension point: SessionManager.create_session awaits nothing.
post_sessions(q, profile) ==
    /\ IF ~SessionCreateRequest(q)
       THEN /\ post' = [quantity |-> q, profile |-> profile, code |-> 422, ids |-> {}]
            /\ UNCHANGED <<registry, ctx, rec>>
       ELSE IF ~profile
       THEN /\ post' = [quantity |-> q, profile |-> profile, code |-> 404, ids |-> {}]
            /\ UNCHANGED <<registry, ctx, rec>>
       ELSE \E ids \in SUBSET FreshIds :
            /\ Cardinality(ids) = max(1, min(q, 10))
            /\ registry' = registry \cup ids
            /\ ctx' = [s \in SessionIds |->
                         IF s \in ids THEN SessionContext(TRUE, FALSE) ELSE ctx[s]]
            /\ rec' = [s \in SessionIds |->
                         IF s \in ids
                         THEN [status |-> RUNNING, exit_code |-> Null, finished_at |-> Null]
                         ELSE rec[s]]
            /\ post' = [quantity |-> q, profile |-> profile, code |-> 201, ids |-> ids]
    /\ UNCHANGED <<child, hnd, mon, rdr, del, now, recv, log, stdin, recording, diffed>>

\* ------------------------------------------------- persistence bridge
\* A record update that leaves finished_at as it was.
_update_session_record_unstamped(r, status, exit_code, t) ==
    IF r = NoRecord THEN r
    ELSE [status |-> status,
          finished_at |-> r.finished_at,
          exit_code |-> IF exit_code # Null THEN exit_code ELSE r.exit_code]

\* The body of _task in _update_session_record, run by a worker thread at time t;
\* exit_code = Null is the Python None.
_update_session_record(r, status, exit_code, t) ==
    IF r = NoRecord THEN r
    ELSE [status |-> status,
          finished_at |-> IF status \in FINAL_STATES THEN t
                          ELSE IF status = RUNNING THEN Null ELSE r.finished_at,
          exit_code |-> IF exit_code # Null THEN exit_code ELSE r.exit_code]

\* ------------------------------------------------------------ broadcast
\* A broadcast that gives up every subscriber when one send raises.
_broadcast_sockets_dropall(socks, w, ok) == IF ok THEN socks ELSE {}

\* One iteration of the loop of _broadcast_text: the send to w succeeds (ok) and w
\* has the text, or it raises and w is discarded from the subscriber set.
_broadcast_sockets(socks, w, ok) == IF ok THEN socks ELSE socks \ {w}

_broadcast_recv(rv, w, ok, msg) ==
    IF ok /\ recording THEN [rv EXCEPT ![w] = Append(@, msg)] ELSE rv

\* One byte of a text: of output n of child d, or of a notice; valid tells whether
\* it is part of a well-formed UTF-8 sequence.
Byte(d, n, valid) == [d |-> d, n |-> n, valid |-> valid]

\* A message of type "output" as a socket receives it: a text the server injects
\* (exit notice, reason, Git delta, error), or output that reader r broadcasts.
Injected(name, n) ==
    [kind |-> name, r |-> None, logged |-> FALSE, text |-> <<Byte(name, n, TRUE)>>]

Broadcast(r, text, logged) == [kind |-> "out", r |-> r, logged |-> logged, text |-> text]

\* ----------------------------------------------------------- WebSocket
\* The children spawned for a session.
ChildrenOf(s) == {c \in Sockets : hnd[c].s = s /\ child[c].st # "none"}

\* A child of the session has ended and the context's handle is back to None.
\* (History for the claims: hnd[w].late tells whether ChildGone held when the
\* attach of w began.)
ChildGone(s) == ctx[s].pty = None /\ \E c \in ChildrenOf(s) : child[c].st = "exited"

\* An attach that does not look the id up in the registry.
attach_unchecked(w, s) ==
    /\ hnd[w].pc = "new"
    /\ hnd' = [hnd EXCEPT ![w] = [@ EXCEPT !.pc = "accept", !.s = s, !.late = ChildGone(s)]]
    /\ UNCHANGED <<registry, ctx, rec, child, mon, rdr, del, now, recv, log, stdin, recording, post, diffed>>

\* session_socket up to the first suspension of attach: self.get(session_id)
\* raises KeyError for an id the registry does not map, and the socket is closed
\* with 4404; otherwise the coroutine awaits websocket.accept().
attach(w, s) ==
    /\ hnd[w].pc = "new"
    /\ hnd' = [hnd EXCEPT ![w] = [@ EXCEPT !.pc = IF s \in registry THEN "accept" ELSE "closed4404",
                                          !.s = s, !.late = ChildGone(s)]]
    /\ UNCHANGED <<registry, ctx, rec, child, mon, rdr, del, now, recv, log, stdin, recording, post, diffed>>

\* attach after accept() has returned: context.sockets.add(websocket); if
\* context.pty is None, _launch_process hands _spawn to the executor and waits.
attach_accepted(w) ==
    /\ hnd[w].pc = "accept"
    /\ LET s == SessionOf(w) IN
        /\ ctx' = [ctx EXCEPT ![s].sockets = @ \cup {w}]
        /\ hnd' = [hnd EXCEPT ![w].pc = IF ctx[s].pty = None THEN "spawn" ELSE "recv"]
    /\ UNCHANGED <<registry, rec, child, mon, rdr, del, now, recv, log, stdin, recording, post, diffed>>

\* _launch_process once _spawn has returned: the child w runs, the handle, the log
\* file and the two tasks are stored in the context over whatever was there.
_launch_process(w) ==
    /\ hnd[w].pc = "spawn"
    /\ LET s == SessionOf(w) IN
        /\ child' = [child EXCEPT ![w].st = "alive"]
        /\ ctx' = [ctx EXCEPT ![s].pty = w, ![s].log_file = TRUE,
                              ![s].reader_task = w, ![s].monitor_task = w]
        /\ mon' = [mon EXCEPT ![w].pc = "start"]
        /\ rdr' = [rdr EXCEPT ![w].pc = "start", ![w].since = ctx[s].sockets]
        /\ hnd' = [hnd EXCEPT ![w].pc = "recv"]
    /\ UNCHANGED <<registry, rec, del, now, recv, log, stdin, recording, post, diffed>>

\* _spawn raises in its worker thread (the command cannot be started): the
\* exception leaves _launch_process and attach, and session_socket, which catches
\* only KeyError around attach, ends with it. Nothing is sent and nothing is undone.
_spawn_raises(w) ==
    /\ hnd[w].pc = "spawn"
    /\ hnd' = [hnd EXCEPT ![w].pc = "spawnfailed"]
    /\ UNCHANGED <<registry, ctx, rec, child, mon, rdr, del, now, recv, log, stdin, recording, post, diffed>>

\* A detach that ends the session with its last subscriber.
detach_cascading(s, w) ==
    /\ ctx' = IF s \in registry THEN [ctx EXCEPT ![s].sockets = @ \ {w}] ELSE ctx
    /\ registry' = IF s \in registry /\ ctx[s].sockets \subseteq {w}
                   THEN registry \ {s} ELSE registry
    /\ UNCHANGED <<rec, child, mon, rdr, del, now, recv, log, stdin, recording, post, diffed>>

\* SessionManager.detach: nothing for an id the registry does not map, else the
\* socket is discarded from the subscriber set.
detach(s, w) ==
    /\ ctx' = IF s \in registry THEN [ctx EXCEPT ![s].sockets = @ \ {w}] ELSE ctx
    /\ UNCHANGED <<registry, rec, child, mon, rdr, del, now, recv, log, stdin, recording, post, diffed>>

\* session_socket: receive_json raises WebSocketDisconnect, the handler detaches.
disconnect(w) ==
    /\ hnd[w].pc = "recv"
    /\ detach(SessionOf(w), w)
    /\ hnd' = [hnd EXCEPT ![w].pc = "closed"]

\* ---------------------------------------------------- keystroke parser
CR == "\r"
LF == "\n"
ETX == "^C"     \* U+0003
BS == "^H"      \* U+0008
DEL == "^?"     \* U+007F
SP == " "
Chars == {"a", SP, BS, DEL, ETX, CR, LF}

\* The non-empty strings over a set of characters, up to MaxMsgLen long.
Messages(chars) == UNION {[1..n -> chars] : n \in 1..MaxMsgLen}

\* A slice that removes nothing.
ButLast_whole(str) == str

\* str[:-1]
ButLast(str) == IF str = <<>> THEN <<>> ELSE SubSeq(str, 1, Len(str) - 1)

\* str.strip(), for the one whitespace character of Chars
RECURSIVE strip(_)
strip(str) ==
    IF str = <<>> THEN <<>>
    ELSE IF Head(str) = SP THEN strip(Tail(str))
    ELSE IF str[Len(str)] = SP THEN strip(ButLast(str))
    ELSE str

\* git status --short as get_git_status returns it: a map path -> code.
Paths == {"x"}
Codes == {"M", "??"}
StatusMaps == UNION {[S -> Codes] : S \in SUBSET Paths}
Snapshots == {NoSnap} \cup {[ok |-> TRUE, map |-> m] : m \in StatusMaps}

\* A diff whose modified bucket lists every path that is in both maps.
diff_status_samecode(before, after) ==
    [added |-> {q \in DOMAIN after : q \notin DOMAIN before},
     modified |-> {q \in DOMAIN after : q \in DOMAIN before},
     deleted |-> {q \in DOMAIN before : q \notin DOMAIN after}]

\* git.diff_status: the three buckets, as the paths they list.
diff_status(before, after) ==
    [added |-> {q \in DOMAIN after : q \notin DOMAIN before},
     modified |-> {q \in DOMAIN after : q \in DOMAIN before /\ before[q] # after[q]},
     deleted |-> {q \in DOMAIN before : q \notin DOMAIN after}]

\* The status maps git.diff_status is called with when it is looked at alone:
\* three paths let the three buckets be non-empty at once.
DiffPaths == {"x", "y", "z"}
DiffMaps == UNION {[S -> Codes] : S \in SUBSET DiffPaths}

\* A call of git.diff_status returns.
diff_status_returns ==
    /\ ~diffed.returned
    /\ diffed' = [diffed EXCEPT !.returned = TRUE,
                                !.out = diff_status(diffed.before, diffed.after)]
    /\ UNCHANGED <<registry, ctx, rec, child, hnd, mon, rdr, del, now, recv, log, stdin, recording, post>>

\* A test of the delta that finds every delta non-empty.
any_delta_always(delta) == TRUE

\* any(delta.values())
any_delta(delta) == delta.added # {} \/ delta.modified # {} \/ delta.deleted # {}

\* Where the coroutine of send_input suspends next, and with which locals.
Susp(pc, rest, buf, wd, after, cb, git) ==
    [pc |-> pc, rest |-> rest, buf |-> buf, wd |-> wd, after |-> after,
     cb |-> cb, git |-> git]

\* The loop of _process_input from the character Head(rest) on, with the pending
\* buffer buf, up to the next suspension: cb is context.command_buffer, git is
\* context.cwd_has_git, p tells whether context.pty is not None (a write without
\* handle returns at once), exists whether <cwd>/.git exists. The result "unlock"
\* is the return of _process_input.
RECURSIVE _process_input(_, _, _, _, _, _)
_process_input(rest, buf, cb, git, p, exists) ==
    IF rest = <<>>
    THEN IF buf # <<>> /\ p
         THEN Susp("flush", <<>>, <<>>, buf, "end", cb, git)
         ELSE Susp("unlock", <<>>, <<>>, <<>>, None, cb, git)
    ELSE LET ch == Head(rest)
             tl == Tail(rest)
         IN CASE ch \in {BS, DEL} ->
                    _process_input(tl, Append(buf, ch), ButLast(cb), git, p, exists)
              [] ch = ETX ->
                    IF p THEN Susp("flush", tl, <<>>, Append(buf, ch), "loop", <<>>, git)
                    ELSE _process_input(tl, <<>>, <<>>, git, p, exists)
              [] ch \in {CR, LF} /\ buf # <<>> /\ p ->
                    Susp("flush", rest, <<>>, buf, "newline", cb, git)
              [] ch = CR /\ ~(buf # <<>> /\ p) ->
                    \* _handle_newline("\r") up to its first await
                    IF git \/ exists
                    THEN Susp("before", tl, <<>>, <<>>, None, cb, TRUE)
                    ELSE IF p THEN Susp("nlwrite", tl, <<>>, <<CR>>, None, <<>>, git)
                    ELSE _process_input(tl, <<>>, <<>>, git, p, exists)
              [] ch = LF /\ ~(buf # <<>> /\ p) ->
                    IF p THEN Susp("nlwrite", tl, <<>>, <<LF>>, None, cb, git)
                    ELSE _process_input(tl, <<>>, cb, git, p, exists)
              [] OTHER ->
                    _process_input(tl, Append(buf, ch), Append(cb, ch), git, p, exists)

\* The coroutine of socket w goes on to the suspension r, reached through the
\* loop of _process_input (no snapshot is held there); on "unlock" the lock is
\* released and the handler is back in receive_json.
Proceed(w, r) ==
    LET s == SessionOf(w) IN
    /\ hnd' = [hnd EXCEPT ![w] =
                [@ EXCEPT !.pc = IF r.pc = "unlock" THEN "recv" ELSE r.pc,
                          !.rest = r.rest, !.buf = r.buf, !.wd = r.wd, !.after = r.after,
                          !.before = NoSnap, !.label = <<>>, !.pend = {}]]
    /\ ctx' = [ctx EXCEPT ![s].command_buffer = r.cb, ![s].cwd_has_git = r.git,
                          ![s].lock = IF r.pc = "unlock" THEN None ELSE w]

\* The loop goes on after an await of _process_input or _handle_newline.
Continue(w, exists) ==
    LET cx == ctx[SessionOf(w)] IN
    Proceed(w, _process_input(hnd[w].rest, <<>>, cx.command_buffer, cx.cwd_has_git,
                              cx.pty # None, exists))

\* An exception leaves send_input: `async with` releases the lock if it is held,
\* and session_socket goes to its `except Exception` branch.
Raise(w) ==
    LET s == SessionOf(w) IN
    /\ hnd' = [hnd EXCEPT ![w] = [@ EXCEPT !.pc = "err", !.rest = <<>>, !.buf = <<>>,
                                           !.wd = <<>>, !.after = None, !.before = NoSnap,
                                           !.label = <<>>, !.pend = {}]]
    /\ ctx' = [ctx EXCEPT ![s].lock = IF @ = w THEN None ELSE @]

\* One entry of the history stdin of a session, made by the k-th message of socket
\* w: a "write" of data to child c, a "skip" of the newline write for want of a
\* child handle, a "before" or "after" sample of the Git status, or the send of a
\* "delta"; sub names the carriage return it belongs to (<<>> for a write that
\* forwards none).
Event(e, c, w, data, sub) == [e |-> e, c |-> c, w |-> w, k |-> hnd[w].k, data |-> data, sub |-> sub]

\* The carriage return the handler of w is processing: message and position.
Submission(w) == <<w, hnd[w].k, Len(hnd[w].rest)>>

\* A send_input that runs _process_input without taking the lock.
send_input_unlocked(w, data, exists) ==
    /\ hnd[w].pc = "recv"
    /\ hnd[w].k < MaxInputs
    /\ LET s == SessionOf(w)
           h == [hnd EXCEPT ![w].k = @ + 1, ![w].rest = data]
       IN IF s \notin registry \/ ctx[s].pty = None
          THEN /\ hnd' = [h EXCEPT ![w].pc = "err", ![w].rest = <<>>]
               /\ UNCHANGED ctx
          ELSE LET r == _process_input(data, <<>>, ctx[s].command_buffer,
                                       ctx[s].cwd_has_git, TRUE, exists)
               IN /\ hnd' = [h EXCEPT ![w] =
                        [@ EXCEPT !.pc = IF r.pc = "unlock" THEN "recv" ELSE r.pc,
                                  !.rest = r.rest, !.buf = r.buf, !.wd = r.wd,
                                  !.after = r.after]]
                  /\ ctx' = [ctx EXCEPT ![s].command_buffer = r.cb,
                                        ![s].cwd_has_git = r.git]
    /\ UNCHANGED <<registry, rec, child, mon, rdr, del, now, recv, log, stdin, recording, post, diffed>>

\* session_socket receives {"type": "input", "data": data} and calls send_input:
\* KeyError for an id not in the registry, RuntimeError without child handle, else
\* the lock is taken (or waited for) and _process_input runs to its first await.
send_input(w, data, exists) ==
    /\ hnd[w].pc = "recv"
    /\ hnd[w].k < MaxInputs
    /\ LET s == SessionOf(w)
           h == [hnd EXCEPT ![w].k = @ + 1, ![w].rest = data]
       IN IF s \notin registry \/ ctx[s].pty = None
          THEN /\ hnd' = [h EXCEPT ![w].pc = "err", ![w].rest = <<>>]
               /\ UNCHANGED ctx
          ELSE IF ctx[s].lock # None
          THEN /\ hnd' = [h EXCEPT ![w].pc = "lockwait"]
               /\ UNCHANGED ctx
          ELSE LET r == _process_input(data, <<>>, ctx[s].command_buffer,
                                       ctx[s].cwd_has_git, TRUE, exists)
               IN /\ hnd' = [h EXCEPT ![w] =
                        [@ EXCEPT !.pc = IF r.pc = "unlock" THEN "recv" ELSE r.pc,
                                  !.rest = r.rest, !.buf = r.buf, !.wd = r.wd,
                                  !.after = r.after]]
                  /\ ctx' = [ctx EXCEPT ![s].command_buffer = r.cb,
                                        ![s].cwd_has_git = r.git,
                                        ![s].lock = IF r.pc = "unlock" THEN None ELSE w]
    /\ UNCHANGED <<registry, rec, child, mon, rdr, del, now, recv, log, stdin, recording, post, diffed>>

\* The lock is free and the waiting send_input gets it: _process_input returns at
\* once if the child handle is gone (line 234), else runs to its first await.
lock_acquired(w, exists) ==
    /\ hnd[w].pc = "lockwait"
    /\ LET s == SessionOf(w) IN
        /\ ctx[s].lock = None
        /\ IF ctx[s].pty = None
           THEN /\ hnd' = [hnd EXCEPT ![w].pc = "recv", ![w].rest = <<>>]
                /\ UNCHANGED ctx
           ELSE Continue(w, exists)
    /\ UNCHANGED <<registry, rec, child, mon, rdr, del, now, recv, log, stdin, recording, post, diffed>>

\* A flush that drops the pending characters instead of writing them.
flush_buffer_dropped(w, exists) ==
    /\ hnd[w].pc = "flush"
    /\ Continue(w, exists)
    /\ UNCHANGED <<registry, rec, child, mon, rdr, del, now, recv, log, stdin, recording, post, diffed>>

\* flush_buffer: the worker thread runs _write with the pending characters
\* (context.pty.write; AttributeError if the handle is gone by now), and the loop
\* goes on: with the next character, with _handle_newline, or to its end.
flush_buffer(w, exists) ==
    /\ hnd[w].pc = "flush"
    /\ LET s == SessionOf(w) IN
        IF ctx[s].pty = None
        THEN Raise(w) /\ UNCHANGED stdin
        ELSE /\ stdin' = [stdin EXCEPT ![s] =
                            Append(@, Event("write", ctx[s].pty, w, hnd[w].wd, <<>>))]
             /\ Continue(w, exists)
    /\ UNCHANGED <<registry, rec, child, mon, rdr, del, now, recv, log, recording, post, diffed>>

\* The newline handler that samples the status and starts the settle delay without
\* forwarding the newline.
git_before_unforwarded(w, snap, exists) ==
    /\ hnd[w].pc = "before"
    /\ LET s == SessionOf(w) IN
        /\ stdin' = [stdin EXCEPT ![s] = Append(@, Event("before", None, w, <<>>, Submission(w)))]
        /\ IF snap = NoSnap
           THEN Proceed(w, _process_input(hnd[w].rest, <<>>, <<>>, ctx[s].cwd_has_git,
                                          ctx[s].pty # None, exists))
           ELSE /\ hnd' = [hnd EXCEPT ![w] = [@ EXCEPT !.pc = "after", !.before = snap,
                                                      !.label = strip(ctx[s].command_buffer)]]
                /\ ctx' = [ctx EXCEPT ![s].command_buffer = <<>>]
    /\ UNCHANGED <<registry, rec, child, mon, rdr, del, now, recv, log, recording, post, diffed>>

\* _handle_newline("\r"), lines 272-276: the before snapshot is there (or None),
\* the label is taken, the command buffer cleared, and the newline goes to the
\* executor; without child handle the write returns at once.
git_before(w, snap, exists) ==
    /\ hnd[w].pc = "before"
    /\ LET s == SessionOf(w)
           label == strip(ctx[s].command_buffer)
           sampled == Append(stdin[s], Event("before", None, w, <<>>, Submission(w)))
       IN IF ctx[s].pty # None
          THEN /\ hnd' = [hnd EXCEPT ![w] = [@ EXCEPT !.pc = "nlwrite", !.wd = <<CR>>,
                                                     !.before = snap, !.label = label]]
               /\ ctx' = [ctx EXCEPT ![s].command_buffer = <<>>]
               /\ stdin' = [stdin EXCEPT ![s] = sampled]
          ELSE /\ stdin' = [stdin EXCEPT ![s] =
                              Append(sampled, Event("skip", None, w, <<CR>>, Submission(w)))]
               /\ IF snap = NoSnap
                  THEN Proceed(w, _process_input(hnd[w].rest, <<>>, <<>>, ctx[s].cwd_has_git,
                                                 FALSE, exists))
                  ELSE /\ hnd' = [hnd EXCEPT ![w] = [@ EXCEPT !.pc = "after", !.before = snap,
                                                             !.label = label]]
                       /\ ctx' = [ctx EXCEPT ![s].command_buffer = <<>>]
    /\ UNCHANGED <<registry, rec, child, mon, rdr, del, now, recv, log, recording, post, diffed>>

\* The worker thread writes the newline; _handle_newline returns if no before
\* snapshot was taken, else sleeps git_diff_delay and samples again.
newline_write(w, exists) ==
    /\ hnd[w].pc = "nlwrite"
    /\ LET s == SessionOf(w)
           sub == IF hnd[w].wd = <<CR>> THEN Submission(w) ELSE <<>>
       IN IF ctx[s].pty = None
          THEN Raise(w) /\ UNCHANGED stdin
          ELSE /\ stdin' = [stdin EXCEPT ![s] =
                              Append(@, Event("write", ctx[s].pty, w, hnd[w].wd, sub))]
               /\ IF hnd[w].before = NoSnap
                  THEN Continue(w, exists)
                  ELSE /\ hnd' = [hnd EXCEPT ![w].pc = "after"]
                       /\ UNCHANGED ctx
    /\ UNCHANGED <<registry, rec, child, mon, rdr, del, now, recv, log, recording, post, diffed>>

\* Lines 279-287: the after snapshot is there. None clears cwd_has_git; a delta
\* with a non-empty bucket is broadcast on a snapshot of the subscriber set.
git_after(w, snap, exists) ==
    /\ hnd[w].pc = "after"
    /\ LET s == SessionOf(w) IN
        /\ stdin' = [stdin EXCEPT ![s] = Append(@, Event("after", None, w, <<>>, Submission(w)))]
        /\ IF snap = NoSnap
           THEN Proceed(w, _process_input(hnd[w].rest, <<>>, ctx[s].command_buffer, FALSE,
                                          ctx[s].pty # None, exists))
           ELSE IF any_delta(diff_status(hnd[w].before.map, snap.map)) /\ ctx[s].sockets # {}
           THEN /\ hnd' = [hnd EXCEPT ![w] = [@ EXCEPT !.pc = "delta", !.pend = ctx[s].sockets]]
                /\ UNCHANGED ctx
           ELSE Continue(w, exists)
    /\ UNCHANGED <<registry, rec, child, mon, rdr, del, now, recv, log, recording, post, diffed>>

\* One send of the delta block.
delta_send(w, x, ok) ==
    /\ hnd[w].pc = "delta"
    /\ x \in hnd[w].pend
    /\ LET s == SessionOf(w) IN
        /\ recv' = _broadcast_recv(recv, x, ok, Injected("delta", Len(hnd[w].label)))
        /\ ctx' = [ctx EXCEPT ![s].sockets = _broadcast_sockets(@, x, ok)]
        /\ stdin' = [stdin EXCEPT ![s] = Append(@, Event("delta", None, w, <<>>, Submission(w)))]
    /\ hnd' = [hnd EXCEPT ![w].pend = @ \ {x}]
    /\ UNCHANGED <<registry, rec, child, mon, rdr, del, now, log, recording, post, diffed>>

\* _handle_newline returns after the last send and the loop goes on.
delta_resume(w, exists) ==
    /\ hnd[w].pc = "delta"
    /\ hnd[w].pend = {}
    /\ Continue(w, exists)
    /\ UNCHANGED <<registry, rec, child, mon, rdr, del, now, recv, log, stdin, recording, post, diffed>>

\* session_socket, line 328: the error text is sent to the socket; if the send
\* raises, the exception leaves the handler.
error_send(w, ok) ==
    /\ hnd[w].pc = "err"
    /\ recv' = _broadcast_recv(recv, w, ok, Injected("error", 0))
    /\ hnd' = [hnd EXCEPT ![w].pc = IF ok THEN "errsent" ELSE "crashed"]
    /\ UNCHANGED <<registry, ctx, rec, child, mon, rdr, del, now, log, stdin, recording, post, diffed>>

\* session_socket, line 329: the handler detaches after the error text.
error_detach(w) ==
    /\ hnd[w].pc = "errsent"
    /\ detach(SessionOf(w), w)
    /\ hnd' = [hnd EXCEPT ![w].pc = "closed"]

\* ------------------------------------------------------- child process
\* The child ends on its own with some exit code.
child_exit(c, code) ==
    /\ child[c].st = "alive"
    /\ child' = [child EXCEPT ![c].st = "exited", ![c].code = code]
    /\ UNCHANGED <<registry, ctx, rec, hnd, mon, rdr, del, now, recv, log, stdin, recording, post, diffed>>

\* ------------------------------------------------------------- tasks
Finished == {"none", "done", "failed", "cancelled"}

\* task.cancel() for a task that is not done: CancelledError is raised at the
\* await the task is suspended in, and the task ends there.
cancel(tasks, t) ==
    IF t # None /\ tasks[t].pc \notin Finished
    THEN [tasks EXCEPT ![t].pc = "cancelled", ![t].pend = {}]
    ELSE tasks

\* SessionContext.close_log
close_log(cx) == [cx EXCEPT !.log_file = FALSE]

\* ------------------------------------------------------------ _read_pty
\* The n-th read of the output of child d returns these bytes: text, and a byte
\* that is no UTF-8.
Output(d, n) == <<Byte(d, n, TRUE), Byte(d, n, FALSE)>>

\* chunk.decode("utf-8", errors="ignore")
decode(chunk) == SelectSeq(chunk, LAMBDA b : b.valid)

\* data.encode("utf-8", errors="ignore"): a str has no invalid byte to leave out.
encode(text) == SelectSeq(text, LAMBDA b : b.valid)

\* First run of the task: return if the context has no child, else _read goes to
\* the executor.
_read_pty_start(c) ==
    /\ rdr[c].pc = "start"
    /\ rdr' = [rdr EXCEPT ![c].pc = IF ctx[SessionOf(c)].pty = None THEN "done" ELSE "read"]
    /\ UNCHANGED <<registry, ctx, rec, child, hnd, mon, del, now, recv, log, stdin, recording, post, diffed>>

\* _read in its worker thread: "" without handle; else read(1024) on the child the
\* context names now returns its next output, or raises at the end of the stream
\* of a child that is gone ("" again).
_read(c, eof) ==
    /\ rdr[c].pc = "read"
    /\ LET d == ctx[SessionOf(c)].pty IN
        IF d = None
        THEN /\ rdr' = [rdr EXCEPT ![c].pc = "got", ![c].chunk = <<>>]
             /\ UNCHANGED child
        ELSE IF eof
        THEN /\ child[d].st = "exited"
             /\ rdr' = [rdr EXCEPT ![c].pc = "got", ![c].chunk = <<>>]
             /\ UNCHANGED child
        ELSE /\ child[d].nread < MaxChunks
             /\ child' = [child EXCEPT ![d].nread = @ + 1]
             /\ rdr' = [rdr EXCEPT ![c].pc = "got", ![c].chunk = Output(d, child[d].nread + 1)]
    /\ UNCHANGED <<registry, ctx, rec, hnd, mon, del, now, recv, log, stdin, recording, post, diffed>>

\* A reader that writes the chunk to the log as it was read, undecoded.
_read_pty_chunk_raw(c) ==
    /\ rdr[c].pc = "got"
    /\ LET s == SessionOf(c)
           text == decode(rdr[c].chunk)
       IN IF rdr[c].chunk = <<>>
          THEN /\ rdr' = [rdr EXCEPT ![c].pc =
                            IF ctx[s].pty = None \/ child[ctx[s].pty].st # "alive"
                            THEN "done" ELSE "read"]
               /\ UNCHANGED log
          ELSE /\ log' = IF ctx[s].log_file
                         THEN [log EXCEPT ![s] = Append(@, [r |-> c, text |-> rdr[c].chunk])]
                         ELSE log
               /\ rdr' = [rdr EXCEPT ![c] =
                            [@ EXCEPT !.pc = IF ctx[s].sockets = {} THEN "read" ELSE "bcast",
                                      !.chunk = IF ctx[s].sockets = {} THEN <<>> ELSE text,
                                      !.logged = ctx[s].sockets # {} /\ ctx[s].log_file,
                                      !.pend = ctx[s].sockets]]
    /\ UNCHANGED <<registry, ctx, rec, child, hnd, mon, del, now, recv, stdin, recording, post, diffed>>

\* The loop of _read_pty after the read: an empty chunk ends the task if the child
\* is gone and else leads to the next read (after the sleep); a chunk is decoded,
\* written to the log if the log is open, and its broadcast starts on a snapshot
\* of the subscriber set.
_read_pty_chunk(c) ==
    /\ rdr[c].pc = "got"
    /\ LET s == SessionOf(c)
           text == decode(rdr[c].chunk)
       IN IF rdr[c].chunk = <<>>
          THEN /\ rdr' = [rdr EXCEPT ![c].pc =
                            IF ctx[s].pty = None \/ child[ctx[s].pty].st # "alive"
                            THEN "done" ELSE "read"]
               /\ UNCHANGED log
          ELSE /\ log' = IF ctx[s].log_file
                         THEN [log EXCEPT ![s] = Append(@, [r |-> c, text |-> encode(text)])]
                         ELSE log
               /\ rdr' = [rdr EXCEPT ![c] =
                            [@ EXCEPT !.pc = IF ctx[s].sockets = {} THEN "read" ELSE "bcast",
                                      !.chunk = IF ctx[s].sockets = {} THEN <<>> ELSE text,
                                      !.logged = ctx[s].sockets # {} /\ ctx[s].log_file,
                                      !.pend = ctx[s].sockets]]
    /\ UNCHANGED <<registry, ctx, rec, child, hnd, mon, del, now, recv, stdin, recording, post, diffed>>

\* One send of the broadcast of a chunk.
_read_pty_send(c, w, ok) ==
    /\ rdr[c].pc = "bcast"
    /\ w \in rdr[c].pend
    /\ recv' = _broadcast_recv(recv, w, ok, Broadcast(c, rdr[c].chunk, rdr[c].logged))
    /\ ctx' = [ctx EXCEPT ![SessionOf(c)].sockets = _broadcast_sockets(@, w, ok)]
    /\ rdr' = [rdr EXCEPT ![c].pend = @ \ {w}]
    /\ UNCHANGED <<registry, rec, child, hnd, mon, del, now, log, stdin, recording, post, diffed>>

\* The broadcast is over, the next read goes to the executor.
_read_pty_loop(c) ==
    /\ rdr[c].pc = "bcast"
    /\ rdr[c].pend = {}
    /\ rdr' = [rdr EXCEPT ![c] = [@ EXCEPT !.pc = "read", !.chunk = <<>>, !.logged = FALSE]]
    /\ UNCHANGED <<registry, ctx, rec, child, hnd, mon, del, now, recv, log, stdin, recording, post, diffed>>

\* ------------------------------------------------------------ _monitor
\* First run of the task: return if the context has no child, else _wait goes to
\* the executor and blocks in context.pty.wait() on the child the handle names.
_monitor_start(c) ==
    /\ mon[c].pc = "start"
    /\ LET s == SessionOf(c) IN
        mon' = [mon EXCEPT ![c].pc = IF ctx[s].pty = None THEN "done" ELSE "wait",
                           ![c].waits = ctx[s].pty]
    /\ UNCHANGED <<registry, ctx, rec, child, hnd, rdr, del, now, recv, log, stdin, recording, post, diffed>>

\* Lines 203-209 of _monitor, run without suspension after the broadcast: close the
\* log, clear the task and child handles (the reader the context names is
\* cancelled); the record update then goes to the executor.
_monitor_finalize(cx) ==
    [close_log(cx) EXCEPT !.reader_task = None, !.monitor_task = None, !.pty = None]

\* _wait returns: wait() is over, and the exit status is read from the handle the
\* context names now (context.pty.exitstatus or 0; no handle: AttributeError ends
\* the task). Then the broadcast of the exit notice starts on a snapshot of the
\* subscriber set; with no subscriber it is over at once.
_monitor_wake(c) ==
    /\ mon[c].pc = "wait"
    /\ child[mon[c].waits].st = "exited"
    /\ LET s == SessionOf(c)
           p == ctx[s].pty
           rc == IF child[p].st = "exited" THEN child[p].code ELSE 0
       IN IF p = None
          THEN /\ mon' = [mon EXCEPT ![c].pc = "failed"]
               /\ UNCHANGED <<ctx, rdr>>
          ELSE IF ctx[s].sockets = {}
          THEN /\ mon' = [mon EXCEPT ![c].pc = "update", ![c].rc = rc]
               /\ ctx' = [ctx EXCEPT ![s] = _monitor_finalize(@)]
               /\ rdr' = cancel(rdr, ctx[s].reader_task)
          ELSE /\ mon' = [mon EXCEPT ![c].pc = "bcast", ![c].rc = rc,
                                     ![c].pend = ctx[s].sockets]
               /\ UNCHANGED <<ctx, rdr>>
    /\ UNCHANGED <<registry, rec, child, hnd, del, now, recv, log, stdin, recording, post, diffed>>

\* One send of the exit notice (a suspension point of the monitor).
_monitor_send(c, w, ok) ==
    /\ mon[c].pc = "bcast"
    /\ w \in mon[c].pend
    /\ recv' = _broadcast_recv(recv, w, ok, Injected("exit", mon[c].rc))
    /\ ctx' = [ctx EXCEPT ![SessionOf(c)].sockets = _broadcast_sockets(@, w, ok)]
    /\ mon' = [mon EXCEPT ![c].pend = @ \ {w}]
    /\ UNCHANGED <<registry, rec, child, hnd, rdr, del, now, log, stdin, recording, post, diffed>>

\* The monitor resumes after the last send and finalizes.
_monitor_resume(c) ==
    /\ mon[c].pc = "bcast"
    /\ mon[c].pend = {}
    /\ LET s == SessionOf(c) IN
        /\ ctx' = [ctx EXCEPT ![s] = _monitor_finalize(@)]
        /\ rdr' = cancel(rdr, ctx[s].reader_task)
    /\ mon' = [mon EXCEPT ![c].pc = "update"]
    /\ UNCHANGED <<registry, rec, child, hnd, del, now, recv, log, stdin, recording, post, diffed>>

\* The monitor goes on to line 211 without the record update of line 210.
_monitor_update_skipped(c) ==
    /\ mon[c].pc = "update"
    /\ mon' = [mon EXCEPT ![c].pc = "pop"]
    /\ UNCHANGED <<registry, ctx, rec, child, hnd, rdr, del, now, recv, log, stdin, recording, post, diffed>>

\* The worker thread runs the record update of line 210.
_monitor_update(c) ==
    /\ mon[c].pc = "update"
    /\ LET s == SessionOf(c)
           status == IF mon[c].rc = 0 THEN COMPLETED ELSE ERROR
       IN rec' = [rec EXCEPT ![s] = _update_session_record(@, status, mon[c].rc, now)]
    /\ now' = utcnow_after(now)
    /\ mon' = [mon EXCEPT ![c].pc = "pop"]
    /\ UNCHANGED <<registry, ctx, child, hnd, rdr, del, recv, log, stdin, recording, post, diffed>>

\* close_log raises inside _monitor (line 201): log_file.close() fails, the
\* finally clause sets log_file to None, and the exception ends the task before
\* the lines that clear the handles.
_monitor_close_raises(c) ==
    /\ LET s == SessionOf(c) IN
        /\ \/ mon[c].pc = "bcast" /\ mon[c].pend = {}
           \/ /\ mon[c].pc = "wait" /\ child[mon[c].waits].st = "exited"
              /\ ctx[s].pty # None /\ ctx[s].sockets = {}
        /\ ctx[s].log_file
        /\ ctx' = [ctx EXCEPT ![s] = close_log(@)]
    /\ mon' = [mon EXCEPT ![c].pc = "failed"]
    /\ UNCHANGED <<registry, rec, child, hnd, rdr, del, now, recv, log, stdin, recording, post, diffed>>

\* The record update of line 210 raises (session_scope rolls back and re-raises,
\* run_in_executor hands the exception to the await): the task ends before line
\* 211.
_monitor_update_raises(c) ==
    /\ mon[c].pc = "update"
    /\ mon' = [mon EXCEPT ![c].pc = "failed"]
    /\ UNCHANGED <<registry, ctx, rec, child, hnd, rdr, del, now, recv, log, stdin, recording, post, diffed>>

\* Line 211: self._sessions.pop(context.session_id, None)
_monitor_pop(c) ==
    /\ mon[c].pc = "pop"
    /\ registry' = registry \ {SessionOf(c)}
    /\ mon' = [mon EXCEPT ![c].pc = "done"]
    /\ UNCHANGED <<ctx, rec, child, hnd, rdr, del, now, recv, log, stdin, recording, post, diffed>>

\* ------------------------------------------ DELETE /sessions/{id}
\* SessionContext.cleanup_tasks with lines 139-141 of terminate_session.
terminate_cleanup(cx) ==
    [close_log(cx) EXCEPT !.reader_task = None, !.monitor_task = None, !.pty = None]

\* The synchronous part of terminate_session after the kill: close the log,
\* cancel the two tasks the context names, clear the handle, start the broadcast
\* of the reason on a snapshot of the subscriber set.
terminate_sync(s) ==
    /\ ctx' = [ctx EXCEPT ![s] = terminate_cleanup(@)]
    /\ rdr' = cancel(rdr, ctx[s].reader_task)
    /\ mon' = cancel(mon, ctx[s].monitor_task)
    /\ del' = [del EXCEPT ![s].pc = IF ctx[s].sockets = {} THEN "update" ELSE "bcast",
                          ![s].pend = ctx[s].sockets]

\* delete_session up to its first suspension. The record exists (else 404). For
\* an id in the registry terminate_session runs: with a child handle _terminate
\* goes to the executor, without one the synchronous part follows at once. For an
\* id not in the registry the record is deleted and committed.
delete_session(s) ==
    /\ del[s].pc = "idle"
    /\ rec[s] # NoRecord
    /\ IF s \notin registry
       THEN /\ rec' = [rec EXCEPT ![s] = NoRecord]
            /\ del' = [del EXCEPT ![s].pc = "done"]
            /\ UNCHANGED <<ctx, rdr, mon>>
       ELSE IF ctx[s].pty # None
       THEN /\ del' = [del EXCEPT ![s].pc = "kill"]
            /\ UNCHANGED <<ctx, rdr, mon, rec>>
       ELSE /\ terminate_sync(s)
            /\ UNCHANGED rec
    /\ UNCHANGED <<registry, child, hnd, now, recv, log, stdin, recording, post, diffed>>

\* The worker thread runs _terminate: context.pty.terminate(force=True) on the
\* handle the context names now; any exception is swallowed.
terminate_kill(s, code) ==
    /\ del[s].pc = "kill"
    /\ LET p == ctx[s].pty IN
        child' = IF p # None /\ child[p].st = "alive"
                 THEN [child EXCEPT ![p].st = "exited", ![p].code = code]
                 ELSE child
    /\ del' = [del EXCEPT ![s].pc = "killed"]
    /\ UNCHANGED <<registry, ctx, rec, hnd, mon, rdr, now, recv, log, stdin, recording, post, diffed>>

\* terminate_session resumes after the executor call.
terminate_resume(s) ==
    /\ del[s].pc = "killed"
    /\ terminate_sync(s)
    /\ UNCHANGED <<registry, rec, child, hnd, now, recv, log, stdin, recording, post, diffed>>

\* One send of the reason.
terminate_send(s, w, ok) ==
    /\ del[s].pc = "bcast"
    /\ w \in del[s].pend
    /\ recv' = _broadcast_recv(recv, w, ok, Injected("reason", 0))
    /\ ctx' = [ctx EXCEPT ![s].sockets = _broadcast_sockets(@, w, ok)]
    /\ del' = [del EXCEPT ![s].pend = @ \ {w},
                          ![s].pc = IF del[s].pend = {w} THEN "update" ELSE "bcast"]
    /\ UNCHANGED <<registry, rec, child, hnd, mon, rdr, now, log, stdin, recording, post, diffed>>

\* The worker thread runs the record update of line 144.
terminate_update(s) ==
    /\ del[s].pc = "update"
    /\ rec' = [rec EXCEPT ![s] = _update_session_record(@, STOPPED, Null, now)]
    /\ now' = utcnow_after(now)
    /\ del' = [del EXCEPT ![s].pc = "pop"]
    /\ UNCHANGED <<registry, ctx, child, hnd, mon, rdr, recv, log, stdin, recording, post, diffed>>

\* Line 145 and the rest of delete_session: the context leaves the registry, the
\* record is deleted and committed.
delete_finish(s) ==
    /\ del[s].pc = "pop"
    /\ registry' = registry \ {s}
    /\ rec' = [rec EXCEPT ![s] = NoRecord]
    /\ del' = [del EXCEPT ![s].pc = "done"]
    /\ UNCHANGED <<ctx, child, hnd, mon, rdr, now, recv, log, stdin, recording, post, diffed>>

\* ----------------------------------------------------------- startup
\* An orphan recovery whose UPDATE has no filter on the status.
mark_orphan_sessions_unfiltered(recs, t) ==
    [s \in SessionIds |->
        IF recs[s] # NoRecord
        THEN [recs[s] EXCEPT !.status = INTERRUPTED, !.finished_at = t]
        ELSE recs[s]]

\* main.mark_orphan_sessions: one UPDATE over the records whose status is running,
\* committed at time t. Only status and finished_at are assigned.
mark_orphan_sessions(recs, t) ==
    [s \in SessionIds |->
        IF recs[s].status = RUNNING
        THEN [recs[s] EXCEPT !.status = INTERRUPTED, !.finished_at = t]
        ELSE recs[s]]

\* The server process ends, by a crash or a shutdown, and a new one starts:
\* main.on_startup runs before any request is served. Nothing of the old process is
\* left but the store: the registry of the new SessionManager is empty, the
\* handlers, the tasks and the children of the old process are gone.
on_startup ==
    /\ rec' = mark_orphan_sessions(rec, now)
    /\ now' = utcnow_after(now)
    /\ registry' = {}
    /\ ctx' = [s \in SessionIds |-> SessionContext(FALSE, FALSE)]
    /\ child' = [c \in Sockets |-> [st |-> "none", code |-> Null, nread |-> 0]]
    /\ hnd' = [w \in Sockets |-> NoHandler]
    /\ mon' = [c \in Sockets |-> NoTask]
    /\ rdr' = [c \in Sockets |-> NoReader]
    /\ del' = [s \in SessionIds |-> [pc |-> "idle", pend |-> {}]]
    /\ stdin' = [s \in SessionIds |-> <<>>]
    /\ UNCHANGED <<recv, log, recording, post, diffed>>

\* ---------------------------------------------------------------- Spec
Next ==
    \/ create_session("s1", FALSE)
    \/ \E w \in Sockets, s \in SessionIds : attach(w, s)
    \/ \E w \in Sockets : attach_accepted(w)
    \/ \E w \in Sockets : _launch_process(w)
    \/ \E w \in Sockets : disconnect(w)
    \/ \E c \in Sockets, code \in ExitCodes : child_exit(c, code)
    \/ \E c \in Sockets : _monitor_start(c)
    \/ \E c \in Sockets : _monitor_wake(c)
    \/ \E c \in Sockets, w \in Sockets, ok \in BOOLEAN : _monitor_send(c, w, ok)
    \/ \E c \in Sockets : _monitor_resume(c)
    \/ \E c \in Sockets : _monitor_update(c)
    \/ \E c \in Sockets : _monitor_pop(c)
    \/ \E s \in SessionIds : delete_session(s)
    \/ \E s \in SessionIds, code \in ExitCodes : terminate_kill(s, code)
    \/ \E s \in SessionIds : terminate_resume(s)
    \/ \E s \in SessionIds, w \in Sockets, ok \in BOOLEAN : terminate_send(s, w, ok)
    \/ \E s \in SessionIds : terminate_update(s)
    \/ \E s \in SessionIds : delete_finish(s)

Spec == Init /\ [][Next]_vars

\* A session at work: it has been created (in a repository or not), its
\* subscribers "w1" and "w2" have attached and no task has run yet. Either "w1" has
\* spawned the child and "w2" has attached after it (create_session, attach("w1"),
\* attach_accepted("w1"), _launch_process("w1"), attach("w2"),
\* attach_accepted("w2")), or both attaches have seen no child handle and both have
\* spawned, "w2" last (create_session, attach and attach_accepted of both, then
\* _launch_process("w1"), _launch_process("w2")). rcd sets the switch recording.
Established(double, git, rcd) ==
    LET last == IF double THEN "w2" ELSE "w1"
        Spawned(c) == c = "w1" \/ double
    IN
    /\ registry = {"s1"}
    /\ ctx = [s \in SessionIds |->
                IF s = "s1"
                THEN [SessionContext(TRUE, git) EXCEPT !.pty = last, !.reader_task = last,
                          !.monitor_task = last, !.sockets = Sockets, !.log_file = TRUE]
                ELSE SessionContext(FALSE, FALSE)]
    /\ rec = [s \in SessionIds |->
                IF s = "s1" THEN [status |-> RUNNING, exit_code |-> Null, finished_at |-> Null]
                ELSE NoRecord]
    /\ child = [c \in Sockets |-> [st |-> IF Spawned(c) THEN "alive" ELSE "none",
                                   code |-> Null, nread |-> 0]]
    /\ hnd = [w \in Sockets |-> [NoHandler EXCEPT !.pc = "recv", !.s = "s1"]]
    /\ mon = [c \in Sockets |-> IF Spawned(c) THEN [NoTask EXCEPT !.pc = "start"] ELSE NoTask]
    /\ rdr = [c \in Sockets |->
                IF Spawned(c)
                THEN [NoReader EXCEPT !.pc = "start",
                                      !.since = IF double THEN Sockets ELSE {"w1"}]
                ELSE NoReader]
    /\ del = [s \in SessionIds |-> [pc |-> "idle", pend |-> {}]]
    /\ now = 0
    /\ recv = [w \in Sockets |-> <<>>]
    /\ log = [s \in SessionIds |-> <<>>]
    /\ stdin = [s \in SessionIds |-> <<>>]
    /\ recording = rcd
    /\ post = NoPost
    /\ diffed = NoCall

\* The keystroke path: one child, the input messages of the two subscribers, and
\* the child ending on its own, with exit code 0.
InputChars == {"a", CR}

InitInput == \E git \in BOOLEAN : Established(FALSE, git, FALSE)

NextInput ==
    \/ \E w \in Sockets : disconnect(w)
    \/ \E c \in Sockets : child_exit(c, 0)
    \/ \E c \in Sockets : _monitor_start(c)
    \/ \E c \in Sockets : _monitor_wake(c)
    \/ \E c \in Sockets, w \in Sockets, ok \in BOOLEAN : _monitor_send(c, w, ok)
    \/ \E c \in Sockets : _monitor_resume(c)
    \/ \E c \in Sockets : _monitor_update(c)
    \/ \E c \in Sockets : _monitor_pop(c)
    \/ \E w \in Sockets, data \in Messages(InputChars), exists \in BOOLEAN :
            send_input(w, data, exists)
    \/ \E w \in Sockets, exists \in BOOLEAN : lock_acquired(w, exists)
    \/ \E w \in Sockets, exists \in BOOLEAN : flush_buffer(w, exists)
    \/ \E w \in Sockets, snap \in Snapshots, exists \in BOOLEAN : git_before(w, snap, exists)
    \/ \E w \in Sockets, exists \in BOOLEAN : newline_write(w, exists)
    \/ \E w \in Sockets, snap \in Snapshots, exists \in BOOLEAN : git_after(w, snap, exists)
    \/ \E w \in Sockets, x \in Sockets, ok \in BOOLEAN : delta_send(w, x, ok)
    \/ \E w \in Sockets, exists \in BOOLEAN : delta_resume(w, exists)
    \/ \E w \in Sockets, ok \in BOOLEAN : error_send(w, ok)
    \/ \E w \in Sockets : error_detach(w)

SpecInput == InitInput /\ [][NextInput]_vars

\* The output path: the readers and monitors of one child, or of the two children
\* of a double spawn; every send succeeds, and the history recv is kept.
InitOut == \E double \in BOOLEAN : Established(double, FALSE, TRUE)

NextOut ==
    \/ \E c \in Sockets : child_exit(c, 0)
    \/ \E c \in Sockets : _monitor_start(c)
    \/ \E c \in Sockets : _monitor_wake(c)
    \/ \E c \in Sockets, w \in Sockets : _monitor_send(c, w, TRUE)
    \/ \E c \in Sockets : _monitor_resume(c)
    \/ \E c \in Sockets : _monitor_update(c)
    \/ \E c \in Sockets : _monitor_pop(c)
    \/ \E c \in Sockets : _read_pty_start(c)
    \/ \E c \in Sockets, eof \in BOOLEAN : _read(c, eof)
    \/ \E c \in Sockets : _read_pty_chunk(c)
    \/ \E c \in Sockets, w \in Sockets : _read_pty_send(c, w, TRUE)
    \/ \E c \in Sockets : _read_pty_loop(c)

SpecOut == InitOut /\ [][NextOut]_vars

\* Broadcasts with failing sends: one child, its reader and monitor, subscribers
\* that disconnect, and the deletion of the session; the history recv is kept.
InitDrop == Established(FALSE, FALSE, TRUE)

NextDrop ==
    \/ \E w \in Sockets : disconnect(w)
    \/ \E c \in Sockets, code \in ExitCodes : child_exit(c, code)
    \/ \E c \in Sockets : _monitor_start(c)
    \/ \E c \in Sockets : _monitor_wake(c)
    \/ \E c \in Sockets, w \in Sockets, ok \in BOOLEAN : _monitor_send(c, w, ok)
    \/ \E c \in Sockets : _monitor_resume(c)
    \/ \E c \in Sockets : _monitor_update(c)
    \/ \E c \in Sockets : _monitor_pop(c)
    \/ \E c \in Sockets : _read_pty_start(c)
    \/ \E c \in Sockets, eof \in BOOLEAN : _read(c, eof)
    \/ \E c \in Sockets : _read_pty_chunk(c)
    \/ \E c \in Sockets, w \in Sockets, ok \in BOOLEAN : _read_pty_send(c, w, ok)
    \/ \E c \in Sockets : _read_pty_loop(c)
    \/ \E s \in SessionIds : delete_session(s)
    \/ \E s \in SessionIds, code \in ExitCodes : terminate_kill(s, code)
    \/ \E s \in SessionIds : terminate_resume(s)
    \/ \E s \in SessionIds, w \in Sockets, ok \in BOOLEAN : terminate_send(s, w, ok)
    \/ \E s \in SessionIds : terminate_update(s)
    \/ \E s \in SessionIds : delete_finish(s)

SpecDrop == InitDrop /\ [][NextDrop]_vars

\* The natural end of a session: attaches, children that end on their own, and
\* the monitors; nobody deletes the session. The event loop resumes every task
\* that can run and the executor runs every function handed to it, so each step of
\* a monitor that stays possible is taken.
NextLive ==
    \/ create_session("s1", FALSE)
    \/ \E w \in Sockets : attach(w, "s1")
    \/ \E w \in Sockets : attach_accepted(w)
    \/ \E w \in Sockets : _launch_process(w)
    \/ \E w \in Sockets : disconnect(w)
    \/ \E c \in Sockets, code \in ExitCodes : child_exit(c, code)
    \/ \E c \in Sockets : _monitor_start(c)
    \/ \E c \in Sockets : _monitor_wake(c)
    \/ \E c \in Sockets, w \in Sockets, ok \in BOOLEAN : _monitor_send(c, w, ok)
    \/ \E c \in Sockets : _monitor_resume(c)
    \/ \E c \in Sockets : _monitor_update(c)
    \/ \E c \in Sockets : _monitor_pop(c)

MonitorStep(c) ==
    \/ _monitor_start(c)
    \/ _monitor_wake(c)
    \/ \E w \in Sockets, ok \in BOOLEAN : _monitor_send(c, w, ok)
    \/ _monitor_resume(c)
    \/ _monitor_update(c)
    \/ _monitor_pop(c)

SpecLive == Init /\ [][NextLive]_vars /\ \A c \in Sockets : WF_vars(MonitorStep(c))

\* The attach path: sessions are created, WebSockets connect with the id of a
\* session or with an unknown id, the spawn succeeds or fails, subscribers leave.
NextAttach ==
    \/ \E git \in BOOLEAN : create_session("s1", git)
    \/ \E w \in Sockets, s \in SessionIds : attach(w, s)
    \/ \E w \in Sockets : attach_accepted(w)
    \/ \E w \in Sockets : _launch_process(w)
    \/ \E w \in Sockets : _spawn_raises(w)
    \/ \E w \in Sockets : disconnect(w)
    \/ \E c \in Sockets, code \in ExitCodes : child_exit(c, code)
    \/ \E c \in Sockets : MonitorStep(c)

SpecAttach == Init /\ [][NextAttach]_vars

\* The store over the lives of the server: what Spec does, sessions with fresh ids
\* (uuid4: an id of the store is never drawn again), and restarts of the server.
NextStore ==
    \/ \E s \in SessionIds : rec[s] = NoRecord /\ create_session(s, FALSE)
    \/ \E s \in SessionIds : attach("w1", s)
    \/ attach_accepted("w1")
    \/ _launch_process("w1")
    \/ disconnect("w1")
    \/ \E code \in ExitCodes : child_exit("w1", code)
    \/ MonitorStep("w1")
    \/ \E s \in SessionIds : delete_session(s)
    \/ \E s \in SessionIds, code \in ExitCodes : terminate_kill(s, code)
    \/ \E s \in SessionIds : terminate_resume(s)
    \/ \E s \in SessionIds, w \in Sockets, ok \in BOOLEAN : terminate_send(s, w, ok)
    \/ \E s \in SessionIds : terminate_update(s)
    \/ \E s \in SessionIds : delete_finish(s)
    \/ on_startup

SpecStore == Init /\ [][NextStore]_vars

\* The creation of sessions: POST /sessions with any quantity, WebSockets that
\* attach to what it created and spawn, and children that end.
NextCreate ==
    \/ \E q \in Quantities, profile \in BOOLEAN : post_sessions(q, profile)
    \/ \E w \in Sockets, s \in SessionIds : attach(w, s)
    \/ \E w \in Sockets : attach_accepted(w)
    \/ \E w \in Sockets : _launch_process(w)
    \/ \E c \in Sockets, code \in ExitCodes : child_exit(c, code)

SpecCreate == Init /\ [][NextCreate]_vars

\* git.diff_status alone: called with any two status maps over DiffPaths.
InitDiff ==
    /\ registry = {}
    /\ ctx = [s \in SessionIds |-> SessionContext(FALSE, FALSE)]
    /\ rec = [s \in SessionIds |-> NoRecord]
    /\ child = [c \in Sockets |-> [st |-> "none", code |-> Null, nread |-> 0]]
    /\ hnd = [w \in Sockets |-> NoHandler]
    /\ mon = [c \in Sockets |-> NoTask]
    /\ rdr = [c \in Sockets |-> NoReader]
    /\ del = [s \in SessionIds |-> [pc |-> "idle", pend |-> {}]]
    /\ now = 0
    /\ recv = [w \in Sockets |-> <<>>]
    /\ log = [s \in SessionIds |-> <<>>]
    /\ stdin = [s \in SessionIds |-> <<>>]
    /\ recording = FALSE
    /\ post = NoPost
    /\ diffed \in [before : DiffMaps, after : DiffMaps, returned : {FALSE}, out : {NoCall.out}]

NextDiff == diff_status_returns

SpecDiff == InitDiff /\ [][NextDiff]_vars

\* The end of a child with failing steps: one child and its monitor, subscribers
\* that leave, sends that fail, a log that cannot be closed, a record update that
\* raises.
InitFail == \E git \in BOOLEAN : Established(FALSE, git, FALSE)

NextFail ==
    \/ \E w \in Sockets : disconnect(w)
    \/ \E c \in Sockets, code \in ExitCodes : child_exit(c, code)
    \/ \E c \in Sockets : MonitorStep(c)
    \/ \E c \in Sockets : _monitor_close_raises(c)
    \/ \E c \in Sockets : _monitor_update_raises(c)

SpecFail == InitFail /\ [][NextFail]_vars

\* The keystrokes alone: one child that stays, the two subscribers send one
\* message each over all of Chars, and the Git status is sampled.
InitKeys == \E git \in BOOLEAN : Established(FALSE, git, FALSE)

NextKeys ==
    \/ \E w \in Sockets, data \in Messages(Chars), exists \in BOOLEAN :
            send_input(w, data, exists)
    \/ \E w \in Sockets, exists \in BOOLEAN : lock_acquired(w, exists)
    \/ \E w \in Sockets, exists \in BOOLEAN : flush_buffer(w, exists)
    \/ \E w \in Sockets, snap \in Snapshots, exists \in BOOLEAN : git_before(w, snap, exists)
    \/ \E w \in Sockets, exists \in BOOLEAN : newline_write(w, exists)
    \/ \E w \in Sockets, snap \in Snapshots, exists \in BOOLEAN : git_after(w, snap, exists)
    \/ \E w \in Sockets, x \in Sockets : delta_send(w, x, TRUE)
    \/ \E w \in Sockets, exists \in BOOLEAN : delta_resume(w, exists)

SpecKeys == InitKeys /\ [][NextKeys]_vars

\* Two sessions side by side: POST /sessions with quantity 2 has created "s1"
\* and "s2", "w1" has attached to "s1" and spawned its child, "w2" to "s2"
\* (post_sessions, then attach, attach_accepted and _launch_process of each);
\* both have a .git entry in their cwd. No task has run yet.
SocketOf(s) == IF s = "s1" THEN "w1" ELSE "w2"

InitTwo ==
    /\ registry = SessionIds
    /\ ctx = [s \in SessionIds |->
                [SessionContext(TRUE, FALSE) EXCEPT !.pty = SocketOf(s),
                    !.reader_task = SocketOf(s), !.monitor_task = SocketOf(s),
                    !.sockets = {SocketOf(s)}, !.log_file = TRUE]]
    /\ rec = [s \in SessionIds |-> [status |-> RUNNING, exit_code |-> Null, finished_at |-> Null]]
    /\ child = [c \in Sockets |-> [st |-> "alive", code |-> Null, nread |-> 0]]
    /\ hnd = [w \in Sockets |->
                [NoHandler EXCEPT !.pc = "recv", !.s = IF w = "w1" THEN "s1" ELSE "s2"]]
    /\ mon = [c \in Sockets |-> [NoTask EXCEPT !.pc = "start"]]
    /\ rdr = [c \in Sockets |-> [NoReader EXCEPT !.pc = "start", !.since = {c}]]
    /\ del = [s \in SessionIds |-> [pc |-> "idle", pend |-> {}]]
    /\ now = 0
    /\ recv = [w \in Sockets |-> <<>>]
    /\ log = [s \in SessionIds |-> <<>>]
    /\ stdin = [s \in SessionIds |-> <<>>]
    /\ recording = FALSE
    /\ post = [quantity |-> 2, profile |-> TRUE, code |-> 201, ids |-> SessionIds]
    /\ diffed = NoCall

\* What the two sessions do. "s1" runs everything: output, a command line with
\* its carriage return and the Git samples, the end of the child, the subscriber
\* leaving, deletion. "s2" types a character and loses its subscriber.
NextTwo ==
    \/ \E w \in Sockets : disconnect(w)
    \/ child_exit("w1", 0)
    \/ MonitorStep("w1")
    \/ _read_pty_start("w1")
    \/ \E eof \in BOOLEAN : _read("w1", eof)
    \/ _read_pty_chunk("w1")
    \/ \E w \in Sockets, ok \in BOOLEAN : _read_pty_send("w1", w, ok)
    \/ _read_pty_loop("w1")
    \/ send_input("w1", <<"a", CR>>, TRUE)
    \/ send_input("w2", <<"a">>, TRUE)
    \/ \E w \in Sockets : flush_buffer(w, TRUE)
    \/ \E w \in Sockets, snap \in Snapshots : git_before(w, snap, TRUE)
    \/ \E w \in Sockets : newline_write(w, TRUE)
    \/ \E w \in Sockets, snap \in Snapshots : git_after(w, snap, TRUE)
    \/ \E w \in Sockets, x \in Sockets, ok \in BOOLEAN : delta_send(w, x, ok)
    \/ \E w \in Sockets : delta_resume(w, TRUE)
    \/ \E w \in Sockets, ok \in BOOLEAN : error_send(w, ok)
    \/ \E w \in Sockets : error_detach(w)
    \/ delete_session("s1")
    \/ \E code \in ExitCodes : terminate_kill("s1", code)
    \/ terminate_resume("s1")
    \/ \E w \in Sockets, ok \in BOOLEAN : terminate_send("s1", w, ok)
    \/ terminate_update("s1")
    \/ delete_finish("s1")

SpecTwo == InitTwo /\ [][NextTwo]_vars

\* ================================================================ claims
\* The running child processes of a session.
RunningChildren(s) == {c \in ChildrenOf(s) : child[c].st = "alive"}

\* C1: for every session, spawn is invoked at most once and at most one child
\* process of the session exists at any instant, under any interleaving of attach
\* calls.
C1_AtMostOneSpawn ==
    \A s \in SessionIds :
        /\ Cardinality(ChildrenOf(s)) <= 1
        /\ Cardinality(RunningChildren(s)) <= 1

\* C2: once the child of a session has ended and the handle is back to None, no
\* later attach for that id spawns a child: it is rejected as not found.
C2_NoSpawnAfterExit ==
    \A w \in Sockets : hnd[w].late => child[w].st = "none"

\* C3: once the status of a record is terminal, no update sets it back to
\* running, and none changes exit_code or finished_at.
C3_TerminalIsFinal ==
    [][\A s \in SessionIds :
        (rec[s].status \in FINAL_STATES /\ rec'[s] # NoRecord) =>
            /\ rec'[s].status # RUNNING
            /\ rec'[s].exit_code = rec[s].exit_code
            /\ rec'[s].finished_at = rec[s].finished_at]_vars

\* C4: a context is in the registry iff the session is live (awaiting its first
\* attach, or with a running child); no child runs for a context that has left the
\* registry.
AwaitingFirstAttach(s) == ctx[s].made /\ ChildrenOf(s) = {} /\ del[s].pc # "done"

HasRunningChild(s) == ctx[s].pty # None

C4_RegistryIffLive ==
    \A s \in SessionIds :
        /\ s \in registry <=> (AwaitingFirstAttach(s) \/ HasRunningChild(s))
        /\ s \notin registry => RunningChildren(s) = {}

\* The second half of C4 alone: a child runs for a context outside the registry.
C4_NoChildOutsideRegistry ==
    \A s \in SessionIds : s \notin registry => RunningChildren(s) = {}

\* The call of send_input an entry of the history belongs to.
CallOf(ev) == <<ev.w, ev.k>>

\* The entries of the history of s that are writes to the child.
Writes(s) == {i \in 1..Len(stdin[s]) : stdin[s][i].e = "write"}

\* The handlers that are inside the critical section of send_input for s.
InProcessInput(s) ==
    {w \in Sockets : hnd[w].s = s /\ hnd[w].pc \in {"flush", "before", "nlwrite", "after", "delta"}}

\* C5: concurrent send_input calls of a session never overlap on the child: at
\* most one call is inside _process_input, and the writes of one call are
\* contiguous in the sequence of writes, none of another call falls between them.
C5_WholeMessages ==
    \A s \in SessionIds :
        /\ Cardinality(InProcessInput(s)) <= 1
        /\ \A i \in Writes(s), j \in Writes(s), l \in Writes(s) :
              (i < j /\ j < l /\ CallOf(stdin[s][i]) = CallOf(stdin[s][l]))
                  => CallOf(stdin[s][j]) = CallOf(stdin[s][i])

\* One call is between its two writes while the call of another socket waits for
\* the lock.
C5_Witness ==
    \E w \in Sockets, x \in Sockets :
        /\ w # x
        /\ hnd[w].pc = "nlwrite"
        /\ hnd[x].pc = "lockwait"
        /\ \E i \in Writes("s1") : CallOf(stdin["s1"][i]) = <<w, hnd[w].k>>

\* The steps of the carriage return that the delta at entry j of the history of s
\* reports are in order: before sample, forwarding of its newline (an entry of one
\* of the kinds fw), after sample, delta; and no newline of another carriage
\* return is written between the forwarding and the delta.
Sequenced(s, j, fw) ==
    LET h == stdin[s]
        q == h[j].sub
    IN \E b \in 1..j, f \in 1..j, a \in 1..j :
        /\ b < f /\ f < a /\ a < j
        /\ h[b].e = "before" /\ h[b].sub = q
        /\ h[f].e \in fw /\ h[f].sub = q
        /\ h[a].e = "after" /\ h[a].sub = q
        /\ \A i \in (f + 1)..j : ~(h[i].e = "write" /\ h[i].sub # <<>> /\ h[i].sub # q)

Deltas(s) == {j \in 1..Len(stdin[s]) : stdin[s][j].e = "delta"}

\* C6 as stated: the delta broadcast of a carriage return comes after its before
\* sample, the write of its newline to the child and its after sample, in this
\* order, and before the newline of the next carriage return is written.
C6_DeltaAfterNewlineWritten ==
    \A s \in SessionIds : \A j \in Deltas(s) : Sequenced(s, j, {"write"})

\* C6, amended: the delta broadcast of a carriage return comes after its before
\* sample, the forwarding of its newline (written to the child, or skipped because
\* the child handle was cleared by then) and its after sample, in this order, and
\* before the newline of the next carriage return is written.
C6_DeltaAfterNewlineForwarded ==
    \A s \in SessionIds : \A j \in Deltas(s) : Sequenced(s, j, {"write", "skip"})

\* The delta of one carriage return has been broadcast after its newline was
\* written, and the newline of the next carriage return has been written after it.
C6_Witness ==
    \E j \in Deltas("s1") :
        /\ \E f \in 1..j : stdin["s1"][f].e = "write" /\ stdin["s1"][f].sub = stdin["s1"][j].sub
        /\ \E i \in (j + 1)..Len(stdin["s1"]) :
              /\ stdin["s1"][i].e = "write"
              /\ stdin["s1"][i].sub \notin {<<>>, stdin["s1"][j].sub}

\* The bytes of a sequence of messages or log entries, concatenated.
RECURSIVE Bytes(_)
Bytes(entries) == IF entries = <<>> THEN <<>> ELSE Head(entries).text \o Bytes(Tail(entries))

IsPrefix(a, b) == Len(a) <= Len(b) /\ SubSeq(b, 1, Len(a)) = a

\* The subscriber has been attached since the session started: since before any
\* reader of the session was created, and still.
AttachedSinceStart(s, w) ==
    /\ w \in ctx[s].sockets
    /\ ChildrenOf(s) # {}
    /\ \A c \in ChildrenOf(s) : w \in rdr[c].since

\* C7 as stated: at every instant the bytes appended to raw.log are a prefix of
\* the bytes broadcast to any subscriber attached since the session started.
C7_LogPrefixOfBroadcast ==
    \A s \in SessionIds : \A w \in Sockets :
        AttachedSinceStart(s, w) => IsPrefix(Bytes(log[s]), Bytes(recv[w]))

\* What subscriber w has received of the chunks reader c wrote to the log, and
\* what reader c has appended to the log of s.
RecvFrom(w, c) == SelectSeq(recv[w], LAMBDA e : e.kind = "out" /\ e.r = c /\ e.logged)

LogFrom(s, c) == SelectSeq(log[s], LAMBDA e : e.r = c)

\* C7, amended: it is the other way round, and per reader task. At every instant
\* the output a subscriber attached since a reader started has received from that
\* reader, as far as the reader found the log open, is a prefix of what the reader
\* has appended to raw.log; the log holds only output of the children, none of the
\* injected texts.
C7_BroadcastPrefixOfLog ==
    \A s \in SessionIds :
        /\ \A c \in ChildrenOf(s) : \A w \in rdr[c].since :
              IsPrefix(Bytes(RecvFrom(w, c)), Bytes(LogFrom(s, c)))
        /\ \A i \in 1..Len(Bytes(log[s])) : Bytes(log[s])[i].d \in Sockets

\* A subscriber attached from the start has two chunks of a reader and the exit
\* notice, and the log has the two chunks.
C7_Witness ==
    \E w \in Sockets, c \in Sockets :
        /\ w \in rdr[c].since
        /\ Len(RecvFrom(w, c)) = 2
        /\ Len(LogFrom("s1", c)) = 2
        /\ \E i \in 1..Len(recv[w]) : recv[w][i].kind = "exit"

\* Entry i of a sequence of output bytes is of an earlier read of its stream than
\* entry j.
InReadOrder(bytes) ==
    \A i \in 1..Len(bytes), j \in 1..Len(bytes) :
        (i < j /\ bytes[i].d = bytes[j].d) => bytes[i].n < bytes[j].n

Outputs(w) == SelectSeq(recv[w], LAMBDA e : e.kind = "out")

\* C8: every chunk a subscriber has received is in the log (it is appended before
\* it is broadcast), and the chunks of one stream are in the log, and in what each
\* subscriber has received, in the order they were read.
C8_ReadOrder ==
    \A s \in SessionIds :
        /\ InReadOrder(Bytes(log[s]))
        /\ \A w \in Sockets : hnd[w].s = s =>
              /\ InReadOrder(Bytes(Outputs(w)))
              /\ \A i \in 1..Len(Outputs(w)) :
                    \E j \in 1..Len(log[s]) : log[s][j].text = Outputs(w)[i].text

\* The send to w of some broadcast (of a reader, a monitor, terminate_session or
\* the newline handler) fails in this step: w was a pending target, is none any
\* more, and has received nothing.
SendTo(task, task2, w) ==
    /\ task.pc \in {"bcast", "delta"}
    /\ task2.pc # "cancelled"
    /\ w \in task.pend
    /\ w \notin task2.pend

\* The task goes on with its broadcast to the other targets: nothing but w leaves
\* its pending targets, and it stays in the broadcast until none is left.
GoesOn(task, task2, w) ==
    /\ [task2 EXCEPT !.pc = task.pc] = [task EXCEPT !.pend = @ \ {w}]
    /\ task2.pc = task.pc \/ task2.pend = {}

\* C9: when a send of a broadcast fails, exactly that subscriber is discarded from
\* the subscriber set, the broadcast goes on with the other targets of its
\* snapshot, and child, log, registry and record are unchanged.
C9_FailedSendFrame ==
    [][\A w \in Sockets :
        (recv'[w] = recv[w] /\
         (\/ \E c \in Sockets : SendTo(rdr[c], rdr'[c], w)
          \/ \E c \in Sockets : SendTo(mon[c], mon'[c], w)
          \/ \E s \in SessionIds : SendTo(del[s], del'[s], w)
          \/ \E x \in Sockets : SendTo(hnd[x], hnd'[x], w)))
        =>
        /\ ctx' = [ctx EXCEPT ![hnd[w].s].sockets = @ \ {w}]
        /\ \A c \in Sockets :
              /\ rdr'[c] = rdr[c] \/ GoesOn(rdr[c], rdr'[c], w)
              /\ mon'[c] = mon[c] \/ GoesOn(mon[c], mon'[c], w)
              /\ hnd'[c] = hnd[c] \/ GoesOn(hnd[c], hnd'[c], w)
        /\ \A s \in SessionIds : del'[s] = del[s] \/ GoesOn(del[s], del'[s], w)
        /\ registry' = registry /\ rec' = rec /\ child' = child /\ log' = log]_vars

\* A send to a subscriber has failed while the reader broadcasts a chunk: the
\* subscriber is discarded though its handler has not detached, the other one
\* has the chunk, and the child runs on.
C9_Witness ==
    \E w \in Sockets, x \in Sockets :
        /\ w # x
        /\ hnd[w].pc = "recv" /\ w \notin ctx["s1"].sockets
        /\ x \in ctx["s1"].sockets
        /\ Len(Outputs(x)) > Len(Outputs(w))
        /\ "s1" \in registry
        /\ ctx["s1"].pty # None /\ child[ctx["s1"].pty].st = "alive"

\* The monitor has done its work for child c, which ended with exit code k: the
\* handle does not name c any more, the log is closed, the record is completed
\* (k = 0) or error with exit_code k and finished_at set, and the registry does
\* not map the session.
Finalized(c, k) ==
    LET s == hnd[c].s IN
    /\ s \in SessionIds
    /\ ctx[s].pty # c
    /\ s \notin registry
    /\ rec[s].status = IF k = 0 THEN COMPLETED ELSE ERROR
    /\ rec[s].exit_code = k
    /\ rec[s].finished_at # Null

\* C11: whenever a child has ended on its own with exit code k, the monitor
\* eventually has closed the session: record completed or error with exit_code k,
\* handle cleared, context out of the registry.
C11_ExitLeadsToFinalized ==
    \A c \in Sockets : \A k \in ExitCodes :
        (child[c].st = "exited" /\ child[c].code = k) ~> Finalized(c, k)

\* C12: when the spawn fails on an attach, the context is removed from the
\* registry and the attaching socket is no subscriber of it: no context without
\* child handle and with a stale subscriber remains.
C12_SpawnFailureCleansUp ==
    \A w \in Sockets : hnd[w].pc = "spawnfailed" =>
        /\ hnd[w].s \notin registry
        /\ w \notin ctx[hnd[w].s].sockets

\* The handler of w takes an "input" message in this step, and the handler of w
\* gets the lock it waited for in this step.
Received(w) == hnd[w].pc = "recv" /\ hnd'[w].k = hnd[w].k + 1

Acquired(w) == hnd[w].pc = "lockwait" /\ hnd'[w].pc # "lockwait"

HandleCleared(w) == hnd[w].s \notin registry \/ ctx[hnd[w].s].pty = None

\* The error of send_input is surfaced: the handler sends the error text and, the
\* text sent, detaches its socket from the session (if the registry still maps it).
Surfaced ==
    \A w \in Sockets :
        /\ hnd[w].pc = "err" /\ hnd'[w] # hnd[w] => hnd'[w].pc \in {"errsent", "crashed"}
        /\ hnd[w].pc = "errsent" /\ hnd'[w] # hnd[w] =>
              /\ hnd'[w].pc = "closed"
              /\ hnd[w].s \in registry => w \notin ctx'[hnd[w].s].sockets

\* C13 as stated: every send_input call that starts to work when the child handle
\* is cleared, the call that waited for the lock included, fails with an error
\* that is surfaced to its socket, and writes nothing.
C13_GoneChildRaises ==
    [][/\ \A w \in Sockets : (Received(w) \/ Acquired(w)) /\ HandleCleared(w) =>
              hnd'[w].pc = "err" /\ stdin' = stdin
       /\ Surfaced]_vars

\* C14: when terminate_session has done its record update, no child of the
\* session runs, the log is closed, the handle is cleared, no reader or monitor of
\* the session is still at work and the record is stopped; when the request is
\* over, the context is out of the registry.
C14_TerminateEffects ==
    \A s \in SessionIds :
        /\ del[s].pc = "pop" =>
              /\ RunningChildren(s) = {}
              /\ ctx[s].pty = None /\ ~ctx[s].log_file
              /\ \A c \in ChildrenOf(s) : rdr[c].pc \in Finished /\ mon[c].pc \in Finished
              /\ rec[s].status = STOPPED
        /\ del[s].pc = "done" => s \notin registry

\* C15: in every state of the store each record is well formed: a running record
\* has neither finished_at nor exit_code, a record with a terminal status has
\* finished_at, a completed record has exit code 0 and an error record has an exit
\* code that is set and not 0.
C15_RecordInvariant ==
    \A s \in SessionIds : rec[s] # NoRecord =>
        /\ rec[s].status \in {RUNNING} \cup FINAL_STATES
        /\ rec[s].status = RUNNING => rec[s].finished_at = Null /\ rec[s].exit_code = Null
        /\ rec[s].status \in FINAL_STATES => rec[s].finished_at # Null
        /\ rec[s].status = COMPLETED => rec[s].exit_code = 0
        /\ rec[s].status = ERROR => rec[s].exit_code \notin {Null, 0}

\* One session has ended with an error and another has completed, and a third
\* status is not needed: both records were written by a monitor.
C15_Witness ==
    \E s, t \in SessionIds :
        /\ rec[s].status = ERROR /\ rec[s].exit_code = 1
        /\ rec[t].status = COMPLETED /\ rec[t].exit_code = 0

\* A record that was written by a monitor and then by terminate_session: it is
\* stopped and keeps the exit code of the child.
C15_WitnessStopped ==
    \E s \in SessionIds : rec[s].status = STOPPED /\ rec[s].exit_code # Null

\* C16: a start of the server turns every running record into an interrupted one
\* with finished_at set and leaves every other record as it was; the recovery run
\* once more on the result changes no record; and a step that is not a start of
\* the server makes no record interrupted.
C16_OrphanRecovery ==
    [][/\ on_startup =>
            /\ \A s \in SessionIds :
                  IF rec[s].status = RUNNING
                  THEN /\ rec'[s].status = INTERRUPTED
                       /\ rec'[s].finished_at # Null
                       /\ rec'[s].exit_code = rec[s].exit_code
                  ELSE rec'[s] = rec[s]
            /\ mark_orphan_sessions(rec', now') = rec'
       /\ \A s \in SessionIds :
            rec'[s].status = INTERRUPTED /\ rec[s].status # INTERRUPTED => on_startup]_vars

\* After a start of the server: a record that was running is interrupted, and a
\* record that had ended before is as it was.
C16_Witness ==
    /\ registry = {}
    /\ \E s, t \in SessionIds :
        /\ rec[s].status = INTERRUPTED
        /\ rec[t].status \in {COMPLETED, ERROR}
        /\ rec[t].finished_at < rec[s].finished_at

\* C17: once DELETE /sessions/{id} of a live session has completed, the session
\* has no running child, no context in the registry and no record in the store,
\* whatever an attach or the monitor did meanwhile; and no later step brings the
\* record back.
C17_DeleteLeavesNothing ==
    \A s \in SessionIds : del[s].pc = "done" =>
        /\ RunningChildren(s) = {}
        /\ s \notin registry
        /\ rec[s] = NoRecord

\* C18: a WebSocket that connects with an id the registry does not map is closed
\* with code 4404, and the step changes neither the registry nor a subscriber set
\* nor the children nor the store; the closed handler does nothing afterwards.
Connects(w) == hnd[w].pc = "new" /\ hnd'[w].pc # "new"

C18_UnknownIdRejected ==
    [][\A w \in Sockets :
        /\ Connects(w) /\ hnd'[w].s \notin registry =>
              /\ hnd'[w].pc = "closed4404"
              /\ registry' = registry
              /\ \A s \in SessionIds : ctx'[s].sockets = ctx[s].sockets
              /\ child' = child
              /\ rec' = rec
        /\ hnd[w].pc = "closed4404" =>
              /\ hnd'[w] = hnd[w]
              /\ child'[w].st = "none"
              /\ \A s \in SessionIds : w \notin ctx'[s].sockets]_vars

\* A socket was closed with 4404 for an id the registry had dropped after the
\* child's exit, while the other socket is a subscriber of a session.
C18_Witness ==
    \E w, v \in Sockets :
        /\ hnd[w].pc = "closed4404" /\ hnd[w].late
        /\ \E s \in SessionIds : v \in ctx[s].sockets

\* A socket was closed with 4404 for an id that no session ever had.
C18_WitnessNever ==
    \E w \in Sockets : hnd[w].pc = "closed4404" /\ ~ctx[hnd[w].s].made /\ registry # {}

\* C19: POST /sessions for an existing profile is not rejected whatever the
\* quantity: it creates 1 session for a quantity of 0 or less, 10 for a quantity
\* of 11 or more, else as many as asked for, and each session it creates has a
\* context in the registry and a running record.
Clamped(q) == IF q < 1 THEN 1 ELSE IF q > 10 THEN 10 ELSE q

Answered == post' # post /\ post'.profile

C19_QuantityClamped ==
    [][Answered =>
        /\ post'.code = 201
        /\ Cardinality(post'.ids) = Clamped(post'.quantity)
        /\ post'.ids \cap registry = {}
        /\ \A s \in post'.ids : rec[s] = NoRecord
        /\ \A s \in post'.ids :
              s \in registry' /\ ctx'[s].made /\ rec'[s].status = RUNNING]_vars

\* C20: for all status maps before and after, added lists exactly the paths in
\* after and not in before, deleted exactly the paths in before and not in after,
\* modified exactly the paths in both whose codes differ; no path is in two
\* buckets; and the diff of a map with itself has three empty buckets.
Keys(m) == DOMAIN m

C20_DiffBuckets ==
    diffed.returned =>
        LET before == diffed.before
            after == diffed.after
            d == diffed.out
        IN /\ d.added = Keys(after) \ Keys(before)
           /\ d.deleted = Keys(before) \ Keys(after)
           /\ d.modified = {q \in Keys(before) \cap Keys(after) : before[q] # after[q]}
           /\ d.added \cap d.modified = {}
           /\ d.added \cap d.deleted = {}
           /\ d.modified \cap d.deleted = {}
           /\ ~any_delta(diff_status(before, before))
           /\ before = after => ~any_delta(d)

\* A call has returned with a path in each of the three buckets.
C20_Witness ==
    /\ diffed.returned
    /\ diffed.out.added # {} /\ diffed.out.modified # {} /\ diffed.out.deleted # {}

\* A call with twice the same map, which is not empty, has returned.
C20_WitnessSame ==
    diffed.returned /\ diffed.before = diffed.after /\ DOMAIN diffed.before = DiffPaths

\* C21: the finalization of the monitor is unconditional: whichever of its steps
\* fails after the child has exited, once the monitor task is over the child
\* handle is cleared and the context is out of the registry.
C21_FinalizationUnconditional ==
    \A c \in Sockets :
        (child[c].st = "exited" /\ mon[c].pc \in {"done", "failed"}) =>
            /\ ctx[SessionOf(c)].pty = None
            /\ SessionOf(c) \notin registry

\* C22: the log handle of a session is open in every state in which a child of
\* the session runs, and every handle that is opened is closed exactly once: none
\* is opened over a handle that is still open (which would be left unclosed), and
\* none is open when the context leaves the registry.
Launches(w) == hnd[w].pc = "spawn" /\ hnd'[w].pc = "recv"

C22_LogOpenWhileRunning ==
    [][/\ \A s \in SessionIds : RunningChildren(s) # {} => ctx[s].log_file
       /\ \A w \in Sockets : Launches(w) => ~ctx[SessionOf(w)].log_file
       /\ \A s \in SessionIds : s \in registry /\ s \notin registry' => ~ctx'[s].log_file]_vars

\* C23: command_buffer is what the characters typed so far make of it: Backspace
\* and Delete remove one character from its tail (none if it is empty), Ctrl-C
\* and a carriage return empty it, a line feed leaves it, any other character is
\* appended; and the label of the Git delta of a carriage return is the trimmed
\* command_buffer as it stood when that carriage return was processed. The
\* characters typed are those written to the child and those of the write or
\* newline the parser is suspended in.
Edited(cb, ch) ==
    IF ch \in {BS, DEL} THEN (IF cb = <<>> THEN <<>> ELSE SubSeq(cb, 1, Len(cb) - 1))
    ELSE IF ch \in {ETX, CR} THEN <<>>
    ELSE IF ch = LF THEN cb
    ELSE Append(cb, ch)

RECURSIVE Typing(_, _)
Typing(cb, str) == IF str = <<>> THEN cb ELSE Typing(Edited(cb, Head(str)), Tail(str))

RECURSIVE Concat(_)
Concat(seqs) == IF seqs = <<>> THEN <<>> ELSE Head(seqs) \o Concat(Tail(seqs))

Forwarded(s) == Concat([i \in 1..Len(stdin[s]) |->
                          IF stdin[s][i].e = "write" THEN stdin[s][i].data ELSE <<>>])

InWrite(s) ==
    LET w == ctx[s].lock
    IN IF w # None /\ hnd[w].pc \in {"flush", "nlwrite"} THEN hnd[w].wd ELSE <<>>

LabelAt(s, n) == strip(Typing(<<>>, SubSeq(Forwarded(s), 1, n)))

C23_CommandBuffer ==
    \A s \in SessionIds : ctx[s].pty # None =>
        /\ ctx[s].command_buffer = Typing(<<>>, Forwarded(s) \o InWrite(s))
        /\ \A w \in Sockets : (hnd[w].s = s /\ hnd[w].before # NoSnap) =>
              /\ hnd[w].pc = "nlwrite" => hnd[w].label = LabelAt(s, Len(Forwarded(s)))
              /\ hnd[w].pc \in {"after", "delta"} =>
                    hnd[w].label = LabelAt(s, Len(Forwarded(s)) - 1)

\* A carriage return is being sampled with a label, and a Backspace or a Delete
\* had been typed on the line.
C23_Witness ==
    \E w \in Sockets :
        /\ hnd[w].pc \in {"after", "delta"} /\ hnd[w].before # NoSnap
        /\ hnd[w].label # <<>>
        /\ LET f == Forwarded(hnd[w].s)
           IN \E i \in 1..Len(f) : f[i] \in {BS, DEL} /\ \A j \in i..(Len(f) - 1) : f[j] # CR

\* C24: the Git status is sampled only for a carriage return that is processed
\* while cwd_has_git is true: there are never more sample windows than carriage
\* returns typed, whatever the line feeds (a \r\n pair has one window), and every
\* sample is taken with cwd_has_git true; and a delta block is broadcast only
\* when the after snapshot differs from the before snapshot.
Samples(s, e) == {i \in 1..Len(stdin[s]) : stdin[s][i].e = e}

Returns(str) == {i \in 1..Len(str) : str[i] = CR}

Samples_(w) ==
    LET s == hnd[w].s IN
    /\ s \in SessionIds
    /\ Len(stdin'[s]) = Len(stdin[s]) + 1
    /\ stdin'[s][Len(stdin'[s])].e \in {"before", "after"}
    /\ stdin'[s][Len(stdin'[s])].w = w

C24_SampledOnReturnOnly ==
    [][/\ \A s \in SessionIds :
            /\ Cardinality(Samples(s, "after")) <= Cardinality(Samples(s, "before"))
            /\ Cardinality(Samples(s, "before")) <=
                    Cardinality(Returns(Forwarded(s) \o InWrite(s)))
       /\ \A w \in Sockets : Samples_(w) => ctx[hnd[w].s].cwd_has_git
       /\ \A w \in Sockets : (hnd[w].pc # "delta" /\ hnd'[w].pc = "delta") =>
            /\ hnd[w].pc = "after"
            /\ \A snap \in Snapshots, exists \in BOOLEAN : git_after(w, snap, exists) =>
                  snap.ok /\ snap.map # hnd[w].before.map
       /\ \A s \in SessionIds : Deltas(s) # Deltas(s)' =>
            \E w \in Sockets : hnd[w].s = s /\ hnd[w].pc = "delta"]_vars

\* A \r\n pair has been typed in a repository: one before and one after sample,
\* the snapshots were the same and nothing was broadcast.
C24_Witness ==
    /\ Forwarded("s1") = <<CR, LF>>
    /\ Cardinality(Samples("s1", "before")) = 1
    /\ Cardinality(Samples("s1", "after")) = 1
    /\ Deltas("s1") = {}
    /\ ctx["s1"].cwd_has_git
    /\ \A w \in Sockets : hnd[w].pc = "recv"

\* C25: whenever a sample of the Git status made by the newline handler returns
\* none, the before sample or the after sample, the handler returns with
\* cwd_has_git false, having forwarded the newline, without a delta broadcast and
\* without an error. (The step that returns runs the loop on to its next await:
\* a carriage return that follows may have found .git again.)
BeforeNone(w) ==
    /\ hnd[w].pc = "nlwrite" /\ hnd[w].wd = <<CR>>
    /\ hnd[w].before = NoSnap
    /\ ctx[hnd[w].s].cwd_has_git

ReturnedQuietly(w) ==
    LET s == hnd[w].s
        h == stdin'[s]
    IN /\ ~ctx'[s].cwd_has_git \/ hnd'[w].pc = "before"
       /\ hnd'[w].pc \notin {"delta", "err"}
       /\ \E i \in 1..Len(h) : /\ h[i].e = "write" /\ h[i].data = <<CR>> /\ h[i].w = w
                               /\ \A j \in (i + 1)..Len(h) : h[j].e # "write"

C25_NoneSampleClearsGit ==
    [][\A w \in Sockets :
        /\ (BeforeNone(w) /\ hnd'[w] # hnd[w]) => ReturnedQuietly(w)
        /\ \A exists \in BOOLEAN :
              (hnd[w].pc = "after" /\ git_after(w, NoSnap, exists)) => ReturnedQuietly(w)]_vars

\* The second half of C25 alone: the after sample returns none.
C25_AfterNoneClearsGit ==
    [][\A w \in Sockets : \A exists \in BOOLEAN :
        (hnd[w].pc = "after" /\ git_after(w, NoSnap, exists)) => ReturnedQuietly(w)]_vars

\* C26: while the child stays available, the writes a send_input call makes to
\* the child, concatenated, are its input string: at every moment what the call
\* has written followed by what it is still to write is the same string, which
\* is the input when the call starts and the writes when it is over; a carriage
\* return and a line feed are written alone and as they are, and the other
\* characters in one write per flush point (Ctrl-C, newline, end of message).
Newlines == {<<CR>>, <<LF>>}

WrittenBy(w) ==
    LET s == hnd[w].s
    IN IF s \notin SessionIds THEN <<>>
       ELSE SelectSeq(stdin[s], LAMBDA ev : ev.e = "write" /\ ev.w = w /\ ev.k = hnd[w].k)

WrittenBy_(w) ==
    LET s == hnd'[w].s
    IN IF s \notin SessionIds THEN <<>>
       ELSE SelectSeq(stdin'[s], LAMBDA ev : ev.e = "write" /\ ev.w = w /\ ev.k = hnd'[w].k)

RECURSIVE DataOf(_)
DataOf(evs) == IF evs = <<>> THEN <<>> ELSE Head(evs).data \o DataOf(Tail(evs))

ToWrite(h) ==
    IF h.pc \in {"flush", "nlwrite"} THEN h.wd \o h.rest
    ELSE IF h.pc = "before" THEN <<CR>> \o h.rest
    ELSE h.rest

OneWritePerFlush(evs) ==
    \A i \in 1..Len(evs) :
        /\ evs[i].data # <<>>
        /\ evs[i].data \notin Newlines =>
              \A n \in 1..Len(evs[i].data) :
                  /\ evs[i].data[n] \notin {CR, LF}
                  /\ evs[i].data[n] = ETX => n = Len(evs[i].data)
        /\ i < Len(evs) =>
              \/ evs[i].data \in Newlines
              \/ evs[i + 1].data \in Newlines
              \/ evs[i].data[Len(evs[i].data)] = ETX

C26_WritesAreTheInput ==
    [][\A w \in Sockets :
        /\ hnd'[w].k # hnd[w].k =>
              \A data \in Messages(Chars), exists \in BOOLEAN :
                  send_input(w, data, exists) =>
                      WrittenBy_(w) = <<>> /\ ToWrite(hnd'[w]) = data
        /\ (hnd'[w].k = hnd[w].k /\ hnd'[w] # hnd[w]) =>
              DataOf(WrittenBy_(w)) \o ToWrite(hnd'[w]) = DataOf(WrittenBy(w)) \o ToWrite(hnd[w])
        /\ hnd'[w] # hnd[w] => OneWritePerFlush(WrittenBy_(w))
        /\ hnd'[w].pc = "recv" => ToWrite(hnd'[w]) = <<>>]_vars

\* A call is over that typed a word and its carriage return: two writes.
C26_Witness ==
    \E w \in Sockets :
        /\ hnd[w].pc = "recv" /\ hnd[w].k = 1
        /\ Len(WrittenBy(w)) = 2
        /\ DataOf(WrittenBy(w)) = <<"a", CR>>

\* A call is over that typed two characters without flush point between them:
\* one write.
C26_WitnessOneWrite ==
    \E w \in Sockets :
        /\ hnd[w].pc = "recv" /\ hnd[w].k = 1
        /\ Len(WrittenBy(w)) = 1
        /\ DataOf(WrittenBy(w)) = <<BS, "a">>

\* C27: sessions are isolated from each other. No step changes what belongs to
\* two sessions (registry entry, context, record, log, writes to the children,
\* deletion in progress, and the handlers, children, tasks and received messages
\* of the sockets that asked for the session); a subscriber set holds only
\* sockets that asked for that session, every broadcast of a session goes to
\* sockets of its own subscriber set, and every write made for a session goes to
\* a child of that session.
SocketsFor(s) == {x \in Sockets : hnd[x].s = s}

Footprint(s) ==
    <<s \in registry, ctx[s], rec[s], stdin[s], log[s], del[s],
      [w \in Sockets |->
          IF hnd[w].s = s THEN <<hnd[w], child[w], mon[w], rdr[w], recv[w]>> ELSE <<>>]>>

C27_SessionsIsolated ==
    [][/\ \A a, b \in SessionIds :
            (a # b /\ Footprint(a)' # Footprint(a)) => Footprint(b)' = Footprint(b)
       /\ \A s \in SessionIds :
            /\ ctx[s].sockets \subseteq SocketsFor(s)
            /\ del[s].pend \subseteq SocketsFor(s)
            /\ ctx[s].pty # None => hnd[ctx[s].pty].s = s
            /\ \A i \in 1..Len(stdin[s]) :
                  stdin[s][i].e = "write" =>
                      hnd[stdin[s][i].c].s = s /\ hnd[stdin[s][i].w].s = s
       /\ \A c \in Sockets :
            hnd[c].s \in SessionIds =>
                (mon[c].pend \cup rdr[c].pend \cup hnd[c].pend) \subseteq SocketsFor(hnd[c].s)]_vars

\* Both sessions have been at work: "s1" is broadcasting output of its child and
\* has broadcast a Git delta, "s2" has a character in its command buffer.
C27_Witness ==
    /\ rdr["w1"].pc = "bcast" /\ rdr["w1"].pend # {}
    /\ Deltas("s1") # {}
    /\ ctx["s2"].command_buffer = <<"a">>
    /\ ctx["s1"].command_buffer = <<>>

\* C28: a session whose record exists with status running and whose context was
\* created by POST /sessions in this life of the server is in the registry: a
\* context leaves the registry only after the record update to a terminal status.
C28_RunningIsRegistered ==
    \A s \in SessionIds :
        (ctx[s].made /\ rec[s] # NoRecord /\ rec[s].status = RUNNING) => s \in registry

\* A monitor has taken the context of a session out of the registry, after its
\* child exited, and the record of the session is there with a terminal status.
C28_Witness ==
    \E c \in Sockets :
        /\ mon[c].pc = "done"
        /\ hnd[c].s \in SessionIds
        /\ ctx[hnd[c].s].made /\ hnd[c].s \notin registry
        /\ rec[hnd[c].s] # NoRecord /\ rec[hnd[c].s].status # RUNNING

\* The child of a running session has exited and its monitor is about to update
\* the record: the record is still running and the context still registered.
C28_WitnessPending ==
    \E c \in Sockets :
        /\ mon[c].pc = "update"
        /\ hnd[c].s \in registry
        /\ rec[hnd[c].s] # NoRecord /\ rec[hnd[c].s].status = RUNNING

\* C10: detach never fails, removes only that subscriber, and leaves the child,
\* the log handle, the registry and the record as they are; a session left
\* without subscriber keeps its child and its registry entry.
DetachStep(w) == hnd[w].pc \in {"recv", "errsent"} /\ hnd'[w].pc = "closed"

C10_DetachFrame ==
    [][\A w \in Sockets : DetachStep(w) =>
        /\ registry' = registry /\ rec' = rec /\ child' = child /\ log' = log
        /\ mon' = mon /\ rdr' = rdr
        /\ \A s \in SessionIds :
            ctx'[s] = IF s = hnd[w].s /\ s \in registry
                      THEN [ctx[s] EXCEPT !.sockets = @ \ {w}]
                      ELSE ctx[s]]_vars

\* The last subscriber has detached, the child runs on, the session is registered.
C10_Witness ==
    \E w \in Sockets :
        LET s == hnd[w].s IN
        /\ hnd[w].pc = "closed"
        /\ s \in registry
        /\ ctx[s].sockets = {}
        /\ ctx[s].pty # None
        /\ child[ctx[s].pty].st = "alive"

\* A detach for an id the registry no longer maps.
C10_WitnessUnknown ==
    \E w \in Sockets : hnd[w].pc = "closed" /\ hnd[w].s \notin registry /\ w \in ctx[hnd[w].s].sockets

====
